---- MODULE Spec2Model ----
(***************************************************************************)
(* depscope: dependency health scoring.                                    *)
(*                                                                         *)
(* The module models                                                       *)
(*   - the scorer  (lib/score.js: calculateScore, calculateGrade,          *)
(*     calculateProjectScore),                                             *)
(*   - the orchestrator (index.js: analyzePackage, analyzeProject) with    *)
(*     the response cache it goes through (lib/npm-api.js, lib/cache.js),  *)
(*   - the exit-code policy of the command line (cli.js: run).             *)
(*                                                                         *)
(* Specifications:                                                         *)
(*   SpecScore    one signal bundle drawn in Init, scored and graded       *)
(*   SpecGrade    one integer score drawn in Init, graded                  *)
(*   SpecProject  two sequences of scored results drawn in Init, averaged  *)
(*   Spec         a whole run of the command line over a manifest          *)
(***************************************************************************)
EXTENDS Integers, Sequences, FiniteSets, TLC

VARIABLES
    \* ---- scorer (lib/score.js) ----
    analysisResult,   \* the argument of calculateScore: the four signal records
    score,            \* the value calculateScore returned
    points,           \* what each of the five buckets added to the accumulator
    threw,            \* TRUE when calculateScore raised instead of returning
    grade,            \* the value calculateGrade returned
    scorePc,          \* "input" -> "scored" -> "graded"
    \* ---- analyzeProject / calculateProjectScore ----
    dependencies,     \* results of the production dependencies, in order
    devDependencies,  \* results of the dev dependencies, in order
    projectScore,
    projectGrade,
    projectPc,        \* position of analyzeProject (see the run below)
    \* ---- a run of the command line (cli.js, index.js) ----
    pkg,              \* parsed package.json: [dependencies, devDependencies]
    options,          \* [dev, cache]: --dev given, --no-cache not given
    analysis,         \* per dispatched analyzePackage call: its position and result
    cache,            \* keys of the live entries of ~/.depscope/cache.json
    preRun,           \* the keys whose entry was written before this run
    faults,           \* network errors, rejections and failed cache.clear()
                      \* writes that have happened so far
    cliPc,            \* position of run(): "start", "analyzing", "exited"
    exitCode,         \* the process exit code once cliPc = "exited"
    \* ---- analyzers/maintenance.js ----
    maintenanceInput,   \* the packageInfo handed to analyzeMaintenance
    maintenanceResult,  \* the record it resolved with
    maintenancePc,      \* "input" -> "returned" | "rejected"
    \* ---- lib/npm-api.js getDownloadTrend, analyzers/popularity.js ----
    trendInput,         \* the 7-day totals of the fetched range, or Null
    trendResult,        \* what getDownloadTrend resolved with
    popularityResult,   \* what analyzePopularity resolved with
    trendPc,            \* "input" -> "derived" -> "analyzed"
    \* ---- lib/cache.js ----
    cacheFile,          \* ~/.depscope/cache.json: readable or not, its entries
    now,                \* Date.now(), in milliseconds
    lastCall,           \* the latest call of get / set / clear and its result
    history,            \* per key: its latest set and clear, for the claims;
                        \* in SpecFetch the steps of the call, oldest first
    everSet,            \* the keys set() was ever called with
    writeFaults,        \* failed writes of the cache file so far
    \* ---- lib/npm-api.js cachedFetch, fetchWithTimeout ----
    fetchRequest,       \* [cacheKey, data]: the key and what the server holds
    fetchPc,            \* "start" -> "fetching" -> "reading" -> "returned"
    timer,              \* "unset" -> "armed" -> "cleared" | "fired"
    fetchStart,         \* Date.now() when fetchWithTimeout was called
    fetchReturn,        \* what cachedFetch resolved with
    calls,              \* the concurrent cachedFetch calls of SpecShared, by
                        \* cache key: [data, pc, ret, overlapped]
    \* ---- reporters/json.js, reporters/terminal.js ----
    reportOptions,      \* [json, dev, quiet, limit] as run() hands them on
    shown,              \* the dependency entries the report lists, in order
    reportPc            \* "input" -> "rendered"

vars == << analysisResult, score, points, threw, grade, scorePc,
           dependencies, devDependencies, projectScore, projectGrade, projectPc,
           pkg, options, analysis, cache, preRun, faults, cliPc, exitCode,
           maintenanceInput, maintenanceResult, maintenancePc,
           trendInput, trendResult, popularityResult, trendPc,
           cacheFile, now, lastCall, history, everSet, writeFaults,
           fetchRequest, fetchPc, timer, fetchStart, fetchReturn, calls,
           reportOptions, shown, reportPc >>

scorerVars == << analysisResult, score, points, threw, grade, scorePc >>
projectVars == << dependencies, devDependencies, projectScore, projectGrade, projectPc >>
runVars == << pkg, options, analysis, cache, preRun, faults, cliPc, exitCode >>
\* the state of the scorer, the aggregation and the run together
appVars == << scorerVars, projectVars, runVars >>
maintenanceVars == << maintenanceInput, maintenanceResult, maintenancePc >>
\* the state of the library functions that are exercised on their own
trendVars == << trendInput, trendResult, popularityResult, trendPc >>
cacheVars == << cacheFile, now, lastCall, history, everSet, writeFaults >>
fetchVars == << fetchRequest, fetchPc, timer, fetchStart, fetchReturn, calls >>
reportVars == << reportOptions, shown, reportPc >>
libVars == << maintenanceVars, trendVars, cacheVars, fetchVars, reportVars >>

----------------------------------------------------------------------------
(* Bounds of the model.                                                    *)

\* how far around each band boundary the sampled downloads and sizes reach
Delta == 1
\* longest sequence of results handed to calculateProjectScore in SpecProject
MaxResults == 2
\* most entries (dependencies plus devDependencies) of a manifest
MaxDeps == 2
\* most network errors, promise rejections and failed cache.clear() writes
\* in one run
MaxFaults == 2

----------------------------------------------------------------------------
(* Values.                                                                 *)

\* a signal record that is missing from the bundle (undefined in the code)
Absent == [absent |-> TRUE]

\* JavaScript truthiness of a signal record: `if (analysisResult.maintenance)`
Truthy(r) == r # Absent

Statuses == {"active", "stale", "abandoned"}
Trends == {"growing", "stable", "declining"}
Severities == {"none", "low", "moderate", "high", "critical"}

\* the band boundaries of the popularity bucket
DownloadBounds == {1000, 10000, 100000, 1000000}
\* the band boundaries of the size bucket, in bytes
SizeBounds == {100 * 1024, 500 * 1024, 1024 * 1024, 5 * 1024 * 1024}

\* sampled weeklyDownloads: zero, the values of the tests, and every
\* boundary with its neighbours
DownloadSamples ==
    {0, 50, 50000, 2000000}
        \cup {b + d : b \in DownloadBounds, d \in (0 - Delta)..Delta}
\* sampled unpackedSize: zero (unknown), the values of the tests, and every
\* boundary with its neighbours
SizeSamples ==
    {0, 50000, 200000, 10000000}
        \cup {b + d : b \in SizeBounds, d \in (0 - Delta)..Delta}

MaintenanceRecords == {[status |-> s] : s \in Statuses}
PopularityRecords ==
    {[weeklyDownloads |-> n, trend |-> t] : n \in DownloadSamples, t \in Trends}
SizeRecords == {[unpackedSize |-> n] : n \in SizeSamples}
SecurityRecords == {[severity |-> s] : s \in Severities}

\* every signal bundle: each record present or missing
Bundles ==
    [maintenance : MaintenanceRecords \cup {Absent},
     popularity  : PopularityRecords \cup {Absent},
     size        : SizeRecords \cup {Absent},
     security    : SecurityRecords \cup {Absent}]

----------------------------------------------------------------------------
(* lib/score.js: calculateScore                                            *)

\* Maintenance (30 points)
MaintenancePoints(r) ==
    IF Truthy(r.maintenance)
    THEN CASE r.maintenance.status = "active" -> 30
           [] r.maintenance.status = "stale"  -> 15
           [] OTHER                           -> 0
    ELSE 0

\* variant: the boundaries compared with >= where the code has >
DownloadBandInclusive(dl) ==
    CASE dl >= 1000000 -> 20
      [] dl >= 100000  -> 15
      [] dl >= 10000   -> 10
      [] dl >= 1000    -> 5
      [] OTHER         -> 0

\* the if/else-if chain over weeklyDownloads
DownloadBand(dl) ==
    CASE dl > 1000000 -> 20
      [] dl > 100000  -> 15
      [] dl > 10000   -> 10
      [] dl > 1000    -> 5
      [] OTHER        -> 0

\* Popularity (20 points)
PopularityPoints(r) ==
    IF Truthy(r.popularity)
    THEN DownloadBand(r.popularity.weeklyDownloads)
    ELSE 0

\* variant: no `bytes === 0` branch, so 0 bytes falls in the first band
SizeBandNoUnknown(bytes) ==
    CASE bytes < 100 * 1024      -> 15
      [] bytes < 500 * 1024      -> 12
      [] bytes < 1024 * 1024     -> 8
      [] bytes < 5 * 1024 * 1024 -> 4
      [] OTHER                   -> 0

\* the if/else-if chain over unpackedSize; 0 means the size is unknown
SizeBand(bytes) ==
    CASE bytes = 0               -> 8
      [] bytes < 100 * 1024      -> 15
      [] bytes < 500 * 1024      -> 12
      [] bytes < 1024 * 1024     -> 8
      [] bytes < 5 * 1024 * 1024 -> 4
      [] OTHER                   -> 0

\* variant: a missing size record is scored like a record of unknown size
SizePointsMissingAsUnknown(r) ==
    IF Truthy(r.size) THEN SizeBand(r.size.unpackedSize) ELSE 8

\* Size (15 points)
SizePoints(r) ==
    IF Truthy(r.size) THEN SizeBand(r.size.unpackedSize) ELSE 0

\* variant: the points of low and moderate exchanged
SecurityPointsLowModerateSwapped(r) ==
    IF Truthy(r.security)
    THEN CASE r.security.severity = "none"     -> 25
           [] r.security.severity = "low"      -> 8
           [] r.security.severity = "moderate" -> 15
           [] r.security.severity = "high"     -> 2
           [] OTHER                            -> 0
    ELSE 0

\* Security (25 points)
SecurityPoints(r) ==
    IF Truthy(r.security)
    THEN CASE r.security.severity = "none"     -> 25
           [] r.security.severity = "low"      -> 15
           [] r.security.severity = "moderate" -> 8
           [] r.security.severity = "high"     -> 2
           [] OTHER                            -> 0
    ELSE 0

\* variant: a declining trend adds nothing
TrendPointsDecliningZero(r) ==
    IF Truthy(r.popularity)
    THEN CASE r.popularity.trend = "growing"   -> 10
           [] r.popularity.trend = "stable"    -> 7
           [] OTHER                            -> 0
    ELSE 0

\* Trend (10 points), read from the popularity record
TrendPoints(r) ==
    IF Truthy(r.popularity)
    THEN CASE r.popularity.trend = "growing"   -> 10
           [] r.popularity.trend = "stable"    -> 7
           [] r.popularity.trend = "declining" -> 2
           [] OTHER                            -> 0
    ELSE 0

\* what the five blocks add to `score`, in the order of the code
BucketPoints(r) ==
    [maintenance |-> MaintenancePoints(r),
     popularity  |-> PopularityPoints(r),
     size        |-> SizePoints(r),
     security    |-> SecurityPoints(r),
     trend       |-> TrendPoints(r)]

Min(a, b) == IF a < b THEN a ELSE b
Max(a, b) == IF a > b THEN a ELSE b

\* Math.max(0, Math.min(100, score))
Clamp(x) == Max(0, Min(100, x))

calculateScore(r) ==
    Clamp(MaintenancePoints(r) + PopularityPoints(r) + SizePoints(r)
            + SecurityPoints(r) + TrendPoints(r))

\* variant: the fields are read without the `if (analysisResult.<record>)`
\* guards
DereferencedUnguarded(r) == {r.maintenance, r.popularity, r.size, r.security}

\* the signal records whose fields calculateScore reads: every read sits
\* inside an `if (analysisResult.<record>)` block
Dereferenced(r) ==
    {x \in {r.maintenance, r.popularity, r.size, r.security} : Truthy(x)}

\* reading a field of a missing record raises a TypeError
calculateScoreThrows(r) == Absent \in Dereferenced(r)

----------------------------------------------------------------------------
(* lib/score.js: calculateGrade                                            *)

\* variant: the lower bounds compared with > where the code has >=
calculateGradeExclusive(s) ==
    CASE s > 80 -> "A"
      [] s > 60 -> "B"
      [] s > 40 -> "C"
      [] s > 20 -> "D"
      [] OTHER  -> "F"

calculateGrade(s) ==
    CASE s >= 80 -> "A"
      [] s >= 60 -> "B"
      [] s >= 40 -> "C"
      [] s >= 20 -> "D"
      [] OTHER   -> "F"

----------------------------------------------------------------------------
(* lib/score.js: calculateProjectScore                                     *)
(*                                                                         *)
(* The code accumulates in floating point with the weights 1.0 and 0.5.    *)
(* Every partial sum is a multiple of 0.5 far below 2^53, so it is exact;  *)
(* the model keeps the doubled values, which are integers.                 *)

\* prodWeight = 1.0, doubled
prodWeight2 == 2
\* devWeight = 0.5, doubled
devWeight2 == 1

\* `typeof r.score === 'number' ? r.score : 0`; every result of the model
\* carries a numeric score
ScoreOf(r) == r.score

RECURSIVE WeightedSum2(_, _)
\* the `weightedSum += s * weight` loop over one sequence, doubled
WeightedSum2(results, weight2) ==
    IF results = << >> THEN 0
    ELSE ScoreOf(Head(results)) * weight2 + WeightedSum2(Tail(results), weight2)

\* the `totalWeight += weight` loop over one sequence, doubled
TotalWeight2(results, weight2) == Len(results) * weight2

\* Math.round(n / d) for n >= 0, d > 0: the nearest integer, halves up.
\* n / d is a ratio of small integers, so the double quotient lies on the
\* same side of every half-integer as the exact quotient.
MathRound(n, d) == (2 * n + d) \div (2 * d)

\* variant: dev results weighted like production results
calculateProjectScoreEqualWeights(results, devResults) ==
    LET weightedSum == WeightedSum2(results, prodWeight2)
                         + WeightedSum2(devResults, prodWeight2)
        totalWeight == TotalWeight2(results, prodWeight2)
                         + TotalWeight2(devResults, prodWeight2)
    IN  IF totalWeight = 0 THEN 0 ELSE MathRound(weightedSum, totalWeight)

\* variant: the weights of the dev results are left out of totalWeight
calculateProjectScoreProdWeightOnly(results, devResults) ==
    LET weightedSum == WeightedSum2(results, prodWeight2)
                         + WeightedSum2(devResults, devWeight2)
        totalWeight == TotalWeight2(results, prodWeight2)
    IN  IF totalWeight = 0 THEN 0 ELSE MathRound(weightedSum, totalWeight)

calculateProjectScore(results, devResults) ==
    LET weightedSum == WeightedSum2(results, prodWeight2)
                         + WeightedSum2(devResults, devWeight2)
        totalWeight == TotalWeight2(results, prodWeight2)
                         + TotalWeight2(devResults, devWeight2)
    IN  IF totalWeight = 0 THEN 0 ELSE MathRound(weightedSum, totalWeight)

\* scores handed to calculateProjectScore in SpecProject
ScoreSamples == {0, 40, 60, 70, 75, 80, 90, 100}

\* sequences of at most n elements of S
SeqsUpTo(S, n) == UNION {[1..k -> S] : k \in 0..n}

ScoredResults == {[score |-> s] : s \in ScoreSamples}

----------------------------------------------------------------------------
(* Idle values of the variables a specification does not use.              *)

IdleScorer ==
    /\ analysisResult = [maintenance |-> Absent, popularity |-> Absent,
                         size |-> Absent, security |-> Absent]
    /\ score = 0
    /\ points = BucketPoints(analysisResult)
    /\ threw = FALSE
    /\ grade = "F"
    /\ scorePc = "idle"

IdleProject ==
    /\ dependencies = << >>
    /\ devDependencies = << >>
    /\ projectScore = 0
    /\ projectGrade = "F"
    /\ projectPc = "idle"

IdleRun ==
    /\ pkg = [dependencies |-> << >>, devDependencies |-> << >>]
    /\ options = [dev |-> FALSE, cache |-> TRUE]
    /\ analysis = << >>
    /\ cache = {}
    /\ preRun = {}
    /\ faults = 0
    /\ cliPc = "idle"
    /\ exitCode = 0

IdleMaintenance ==
    /\ maintenanceInput = << >>
    /\ maintenanceResult = << >>
    /\ maintenancePc = "idle"

IdleTrend ==
    /\ trendInput = << >>
    /\ trendResult = << >>
    /\ popularityResult = << >>
    /\ trendPc = "idle"

IdleCache ==
    /\ cacheFile = << >>
    /\ now = 0
    /\ lastCall = << >>
    /\ history = << >>
    /\ everSet = {}
    /\ writeFaults = 0

IdleFetch ==
    /\ fetchRequest = << >>
    /\ fetchPc = "idle"
    /\ timer = "unset"
    /\ fetchStart = 0
    /\ fetchReturn = << >>
    /\ calls = << >>

IdleReport ==
    /\ reportOptions = << >>
    /\ shown = << >>
    /\ reportPc = "idle"

IdleLib ==
    /\ IdleMaintenance
    /\ IdleTrend
    /\ IdleCache
    /\ IdleFetch
    /\ IdleReport

----------------------------------------------------------------------------
(* SpecScore: calculateScore and calculateGrade on one bundle.             *)

InitScore ==
    /\ analysisResult \in Bundles
    /\ score = 0
    /\ points = [maintenance |-> 0, popularity |-> 0, size |-> 0,
                 security |-> 0, trend |-> 0]
    /\ threw = FALSE
    /\ grade = "F"
    /\ scorePc = "input"
    /\ IdleProject
    /\ IdleRun
    /\ IdleLib

\* score = calculateScore(analysisResult)
CalculateScore ==
    /\ scorePc = "input"
    /\ IF calculateScoreThrows(analysisResult)
       THEN /\ threw' = TRUE
            /\ scorePc' = "threw"
            /\ UNCHANGED << score, points >>
       ELSE /\ threw' = FALSE
            /\ score' = calculateScore(analysisResult)
            /\ points' = BucketPoints(analysisResult)
            /\ scorePc' = "scored"
    /\ UNCHANGED << analysisResult, grade >>
    /\ UNCHANGED << projectVars, runVars >>
    /\ UNCHANGED libVars

\* grade = calculateGrade(score)
CalculateGrade ==
    /\ scorePc = "scored"
    /\ grade' = calculateGrade(score)
    /\ scorePc' = "graded"
    /\ UNCHANGED << analysisResult, score, points, threw >>
    /\ UNCHANGED << projectVars, runVars >>
    /\ UNCHANGED libVars

NextScore == CalculateScore \/ CalculateGrade

SpecScore == InitScore /\ [][NextScore]_vars

----------------------------------------------------------------------------
(* SpecGrade: calculateGrade on every integer score.                       *)

InitGrade ==
    /\ analysisResult = [maintenance |-> Absent, popularity |-> Absent,
                         size |-> Absent, security |-> Absent]
    /\ score \in 0..100
    /\ points = BucketPoints(analysisResult)
    /\ threw = FALSE
    /\ grade = "F"
    /\ scorePc = "scored"
    /\ IdleProject
    /\ IdleRun
    /\ IdleLib

NextGrade == CalculateGrade

SpecGrade == InitGrade /\ [][NextGrade]_vars

----------------------------------------------------------------------------
(* SpecProject: calculateProjectScore on two sequences of results.         *)

InitProject ==
    /\ dependencies \in SeqsUpTo(ScoredResults, MaxResults)
    /\ devDependencies \in SeqsUpTo(ScoredResults, MaxResults)
    /\ projectScore = 0
    /\ projectGrade = "F"
    /\ projectPc = "input"
    /\ IdleScorer
    /\ IdleRun
    /\ IdleLib

\* projectScore = calculateProjectScore(dependencies, devDependencies);
\* projectGrade = calculateGrade(projectScore)
Aggregate ==
    /\ projectPc = "input"
    /\ projectScore' = calculateProjectScore(dependencies, devDependencies)
    /\ projectGrade' = calculateGrade(projectScore')
    /\ projectPc' = "returned"
    /\ UNCHANGED << dependencies, devDependencies >>
    /\ UNCHANGED << scorerVars, runVars >>
    /\ UNCHANGED libVars

NextProject == Aggregate

SpecProject == InitProject /\ [][NextProject]_vars

----------------------------------------------------------------------------
(* The registry the run talks to.                                          *)

\* null / undefined results
Null == [null |-> TRUE]

\* `daysSincePublish: Infinity`: larger than every age in days of the model
Infinity == 1000000000

PackageNames == {"express", "moment", "ghost"}

\* the version constraint package.json gives for a name
VersionOf(name) ==
    CASE name = "express" -> "^2.0.0"
      [] name = "moment"  -> "^1.0.0"
      [] OTHER            -> "*"

\* Timestamps are counted in hours since 1970-01-01T00:00Z.
HoursPerDay == 24

\* a Date object holding the timestamp t, and the Date `new Date(val)` gives
\* for a string that is no date
Date(t) == [t |-> t]
InvalidDate == [nan |-> TRUE]

\* `new Date()` during the run: 2026-11-03T08:00Z
Now == 20760 * HoursPerDay + 8

\* the Date that lies the given days and hours before Now
Ago(days, hours) == Date(Now - days * HoursPerDay - hours)

\* registry.npmjs.org/<name>: the metadata, Null for a 404.  Of the
\* metadata the model keeps dist-tags.latest ("" when there is none), the
\* `time` object (Null when there is none) as a function from its keys to
\* Dates, and dist.unpackedSize of the latest version.
RegistryInfo(name) ==
    CASE name = "express" ->
           [latest |-> "2.0.0",
            time |-> ("created" :> Ago(4000, 0)) @@ ("1.0.0" :> Ago(4000, 0))
                       @@ ("2.0.0" :> Ago(30, 5)) @@ ("modified" :> Ago(30, 5)),
            unpackedSize |-> 50000]
      [] name = "moment" ->
           [latest |-> "1.0.0",
            time |-> ("created" :> Ago(5000, 0)) @@ ("1.0.0" :> Ago(600, 2))
                       @@ ("modified" :> Ago(90, 0)),
            unpackedSize |-> 10000000]
      [] OTHER -> Null

\* api.npmjs.org/downloads/point/last-week/<name>
RegistryWeekly(name) ==
    CASE name = "express" -> [downloads |-> 2000000]
      [] name = "moment"  -> [downloads |-> 50]
      [] OTHER            -> Null

\* api.npmjs.org/downloads/range/last-year/<name>.  Of the daily counts
\* the model keeps the two sums getDownloadTrend takes: the last 7 days
\* and the 7 days that start 189 days before the end.
RegistryRange(name) ==
    CASE name = "express" -> [recent |-> 2000000, sixMonthsAgo |-> 1600000]
      [] name = "moment"  -> [recent |-> 350, sixMonthsAgo |-> 583]
      [] OTHER            -> Null

\* Numbers with one decimal (percent, trendPercent) are held as their
\* tenths: 10.0 is 100.

\* variant: the thresholds compared with >= and <= where the code has > and <
DownloadTrendInclusive(recent, sixMonthsAgo) ==
    IF sixMonthsAgo > 0
    THEN LET percent == MathRound(1000 * (recent - sixMonthsAgo), sixMonthsAgo)
         IN  [recent |-> recent, sixMonthsAgo |-> sixMonthsAgo,
              trend |-> IF percent >= 100 THEN "growing"
                        ELSE IF percent <= 0 - 100 THEN "declining"
                        ELSE "stable",
              percent |-> percent]
    ELSE IF recent > 0
    THEN [recent |-> recent, sixMonthsAgo |-> sixMonthsAgo,
          trend |-> "growing", percent |-> 1000]
    ELSE [recent |-> recent, sixMonthsAgo |-> sixMonthsAgo,
          trend |-> "stable", percent |-> 0]

\* "Calculate trend": percent = Math.round(percent * 10) / 10 of
\* ((recent - sixMonthsAgo) / sixMonthsAgo) * 100.  The quotient is taken
\* exactly; on the totals of the model the double arithmetic of the code
\* gives the same tenths.
DownloadTrend(recent, sixMonthsAgo) ==
    IF sixMonthsAgo > 0
    THEN LET percent == MathRound(1000 * (recent - sixMonthsAgo), sixMonthsAgo)
         IN  [recent |-> recent, sixMonthsAgo |-> sixMonthsAgo,
              trend |-> IF percent > 100 THEN "growing"
                        ELSE IF percent < 0 - 100 THEN "declining"
                        ELSE "stable",
              percent |-> percent]
    ELSE IF recent > 0
    THEN [recent |-> recent, sixMonthsAgo |-> sixMonthsAgo,
          trend |-> "growing", percent |-> 1000]
    ELSE [recent |-> recent, sixMonthsAgo |-> sixMonthsAgo,
          trend |-> "stable", percent |-> 0]

\* getDownloadTrend, given what cachedFetch returned
getDownloadTrend(data) ==
    IF data = Null THEN Null ELSE DownloadTrend(data.recent, data.sixMonthsAgo)

RegistryTrend(name) == getDownloadTrend(RegistryRange(name))

\* the three cache keys of a package
PkgKey(name) == "pkg:" \o name
WeekKey(name) == "dl-week:" \o name
TrendKey(name) == "dl-trend:" \o name

\* the cache a finished earlier run over every package leaves behind
WarmCache ==
    UNION {{PkgKey(n), WeekKey(n), TrendKey(n)} :
              n \in {m \in PackageNames : RegistryInfo(m) # Null}}

\* entries of package.json's dependency objects, in Object.entries order
EntryOf(name) == [name |-> name, version |-> VersionOf(name)]

\* sequences without repetition of at most n elements of S
DistinctSeqs(S, n) ==
    {s \in SeqsUpTo(S, n) : \A i, j \in DOMAIN s : i # j => s[i] # s[j]}

Entries(names) == [i \in DOMAIN names |-> EntryOf(names[i])]

\* the manifests of the model: at most MaxDeps entries in all
Manifests ==
    {[dependencies |-> Entries(p), devDependencies |-> Entries(d)] :
        <<p, d>> \in {pd \in DistinctSeqs(PackageNames, MaxDeps)
                               \X DistinctSeqs(PackageNames, MaxDeps) :
                         Len(pd[1]) + Len(pd[2]) <= MaxDeps}}

----------------------------------------------------------------------------
(* The analyzers.                                                          *)

\* analyzers/alternatives.js: the curated table, of which the model keeps
\* the entry for moment
getAlternative(name) ==
    IF name = "moment"
    THEN [name |-> "date-fns", reason |-> "smaller and tree-shakeable"]
    ELSE Null

\* analyzers/maintenance.js

\* the keys a `time` object of the model can have, in Object.entries order
TimeKeys == << "created", "1.0.0", "2.0.0", "modified" >>

\* `d > latest` on two Dates: false when either is invalid
After(d, e) == d # InvalidDate /\ e # InvalidDate /\ d.t > e.t

\* the fallback loop: the most recent Date among the entries other than
\* `created`, Null when there is none
RECURSIVE MostRecent(_, _, _)
MostRecent(time, keys, latest) ==
    IF keys = << >> THEN latest
    ELSE LET key == Head(keys)
         IN  IF key \notin DOMAIN time \/ key = "created"
             THEN MostRecent(time, Tail(keys), latest)
             ELSE LET d == time[key]
                  IN  MostRecent(time, Tail(keys),
                                 IF latest = Null \/ After(d, latest)
                                 THEN d ELSE latest)

\* lastPublishDate: the entry of the latest dist-tag, else `modified`, else
\* the most recent other entry, else `new Date(0)`
LastPublishDate(packageInfo) ==
    LET time      == packageInfo.time
        latestTag == packageInfo.latest
    IN  IF latestTag # "" /\ latestTag \in DOMAIN time THEN time[latestTag]
        ELSE IF "modified" \in DOMAIN time THEN time["modified"]
        ELSE LET latest == MostRecent(time, TimeKeys, Null)
             IN  IF latest # Null THEN latest ELSE Date(0)

\* Math.floor(diffMs / (1000 * 60 * 60 * 24))
DaysSince(date) == (Now - date.t) \div HoursPerDay

sixMonthsDays == 180
eighteenMonthsDays == 540

\* variant: the thresholds compared with <= where the code has <
MaintenanceStatusInclusive(days) ==
    IF days <= sixMonthsDays THEN "active"
    ELSE IF days <= eighteenMonthsDays THEN "stale"
    ELSE "abandoned"

\* status from the age in days of the latest publish
MaintenanceStatus(days) ==
    IF days < sixMonthsDays THEN "active"
    ELSE IF days < eighteenMonthsDays THEN "stale"
    ELSE "abandoned"

Pad2(n) == IF n < 10 THEN "0" \o ToString(n) ELSE ToString(n)

\* date.toISOString().split('T')[0]: the UTC calendar day, YYYY-MM-DD
toISODate(date) ==
    LET z   == (date.t \div HoursPerDay) + 719468
        era == z \div 146097
        doe == z - era * 146097
        yoe == (doe - doe \div 1460 + doe \div 36524 - doe \div 146096)
                 \div 365
        doy == doe - (365 * yoe + yoe \div 4 - yoe \div 100)
        mp  == (5 * doy + 2) \div 153
        d   == doy - (153 * mp + 2) \div 5 + 1
        m   == IF mp < 10 THEN mp + 3 ELSE mp - 9
        y   == yoe + era * 400 + (IF m <= 2 THEN 1 ELSE 0)
    IN  ToString(y) \o "-" \o Pad2(m) \o "-" \o Pad2(d)

\* toISOString raises a RangeError on an invalid Date, so the promise of
\* analyzeMaintenance rejects
analyzeMaintenanceThrows(packageInfo) ==
    /\ packageInfo # Null
    /\ packageInfo.time # Null
    /\ LastPublishDate(packageInfo) = InvalidDate

analyzeMaintenance(packageInfo) ==
    IF packageInfo = Null \/ packageInfo.time = Null
    THEN [lastPublish |-> "unknown", daysSincePublish |-> Infinity,
          status |-> "abandoned"]
    ELSE LET lastPublishDate  == LastPublishDate(packageInfo)
             daysSincePublish == DaysSince(lastPublishDate)
         IN  [lastPublish |-> toISODate(lastPublishDate),
              daysSincePublish |-> daysSincePublish,
              status |-> MaintenanceStatus(daysSincePublish)]

\* the packageInfo arguments of the model.  The age of a sampled Date lies
\* within Delta hours of a threshold, a month back, or a few hours ahead
\* of the clock.
AgeSamples ==
    {b * HoursPerDay + k : b \in {sixMonthsDays, eighteenMonthsDays},
                           k \in (0 - Delta)..Delta}
      \cup {30 * HoursPerDay, 0 - 5}
DateSamples == {Date(Now - a) : a \in AgeSamples} \cup {InvalidDate}
TimeKeySet == {TimeKeys[i] : i \in DOMAIN TimeKeys}
TimeRecords ==
    UNION {{f \in [K -> DateSamples \cup {Ago(1000, 0)}] :
               \A k \in K : (f[k] = Ago(1000, 0)) <=> (k = "created")} :
           K \in SUBSET TimeKeySet}
MaintenanceInputs ==
    {Null}
      \cup {[latest |-> l, time |-> t, unpackedSize |-> 0] :
               l \in {"", "1.0.0", "2.0.0"}, t \in TimeRecords \cup {Null}}

\* analyzers/popularity.js, given what the two fetches returned
analyzePopularity(weeklyData, trendData) ==
    [weeklyDownloads |-> IF weeklyData # Null THEN weeklyData.downloads ELSE 0,
     trend           |-> IF trendData # Null THEN trendData.trend ELSE "stable",
     trendPercent    |-> IF trendData # Null THEN trendData.percent ELSE 0]

\* analyzers/size.js: formatBytes
formatBytes(bytes) ==
    IF bytes = 0 THEN "unknown"
    ELSE IF bytes < 1024 THEN ToString(bytes) \o " B"
    ELSE IF bytes < 1024 * 1024
         THEN ToString(MathRound(bytes, 1024)) \o " KB"
    ELSE IF bytes < 1024 * 1024 * 1024
         THEN LET tenths == MathRound(bytes * 10, 1024 * 1024)
              IN  ToString(tenths \div 10) \o "." \o ToString(tenths % 10)
                    \o " MB"
    ELSE LET tenths == MathRound(bytes * 10, 1024 * 1024 * 1024)
         IN  ToString(tenths \div 10) \o "." \o ToString(tenths % 10)
               \o " GB"

analyzeSize(packageInfo) ==
    IF packageInfo = Null
    THEN [unpackedSize |-> 0, unpackedSizeHuman |-> "unknown"]
    ELSE [unpackedSize |-> packageInfo.unpackedSize,
          unpackedSizeHuman |-> formatBytes(packageInfo.unpackedSize)]

\* analyzers/security.js: the stub reports a clean package
analyzeSecurity(name, version) ==
    [vulnerabilities |-> 0, severity |-> "none"]

----------------------------------------------------------------------------
(* index.js: analyzePackage                                                *)

\* the signals substituted for a dimension whose analyzer rejected, and for
\* a package whose metadata could not be fetched
DefaultMaintenance ==
    [lastPublish |-> "unknown", daysSincePublish |-> Infinity,
     status |-> "abandoned"]
DefaultPopularity == [weeklyDownloads |-> 0, trend |-> "stable", trendPercent |-> 0]
DefaultSize == [unpackedSize |-> 0, unpackedSizeHuman |-> "unknown"]
DefaultSecurity == [vulnerabilities |-> 0, severity |-> "none"]

\* a settled promise, as Promise.allSettled reports it
\* a promise that has not settled
PendingPromise == [status |-> "pending"]
Fulfilled(v) == [status |-> "fulfilled", value |-> v]
Rejected(message) == [status |-> "rejected", reason |-> [message |-> message]]

\* variant: the substituted signals are scored like any others
NotFoundResultScored(name, version) ==
    LET s == calculateScore([maintenance |-> DefaultMaintenance,
                             popularity  |-> DefaultPopularity,
                             size        |-> DefaultSize,
                             security    |-> DefaultSecurity])
    IN  [name          |-> name,
         version       |-> version,
         latestVersion |-> "unknown",
         maintenance   |-> DefaultMaintenance,
         popularity    |-> DefaultPopularity,
         size          |-> DefaultSize,
         security      |-> DefaultSecurity,
         alternative   |-> getAlternative(name),
         score         |-> s,
         grade         |-> calculateGrade(s),
         error         |-> "Package not found or network error"]

\* the result returned when getPackageInfo yields null
NotFoundResult(name, version) ==
    [name          |-> name,
     version       |-> version,
     latestVersion |-> "unknown",
     maintenance   |-> DefaultMaintenance,
     popularity    |-> DefaultPopularity,
     size          |-> DefaultSize,
     security      |-> DefaultSecurity,
     alternative   |-> getAlternative(name),
     score         |-> 0,
     grade         |-> "F",
     error         |-> "Package not found or network error"]

\* variant: a rejected security analyzer leaves the record out
SecurityOrAbsent(settled) ==
    IF settled.status = "fulfilled" THEN settled.value ELSE Absent

\* `results[k].status === 'fulfilled' ? results[k].value : <default>`
MaintenanceOrDefault(settled) ==
    IF settled.status = "fulfilled" THEN settled.value ELSE DefaultMaintenance
PopularityOrDefault(settled) ==
    IF settled.status = "fulfilled" THEN settled.value ELSE DefaultPopularity
SizeOrDefault(settled) ==
    IF settled.status = "fulfilled" THEN settled.value ELSE DefaultSize
SecurityOrDefault(settled) ==
    IF settled.status = "fulfilled" THEN settled.value ELSE DefaultSecurity

\* the four signals taken from the settled analyzers
SignalsOf(results) ==
    [maintenance |-> MaintenanceOrDefault(results[1]),
     popularity  |-> PopularityOrDefault(results[2]),
     size        |-> SizeOrDefault(results[3]),
     security    |-> SecurityOrDefault(results[4])]

\* variant: one rejected analyzer makes the whole analysis count as failed
AnalysisResultOfAllOrNothing(name, version, packageInfo, results) ==
    IF \E k \in 1..4 : results[k].status = "rejected"
    THEN NotFoundResult(name, version)
    ELSE LET signals == SignalsOf(results)
             s       == calculateScore(signals)
         IN  [name          |-> name,
              version       |-> version,
              latestVersion |-> packageInfo.latest,
              maintenance   |-> signals.maintenance,
              popularity    |-> signals.popularity,
              size          |-> signals.size,
              security      |-> signals.security,
              alternative   |-> getAlternative(name),
              score         |-> s,
              grade         |-> calculateGrade(s)]

\* variant: the grade is calculated before the score is assigned, from a
\* score that is still undefined
AnalysisResultOfGradedFirst(name, version, packageInfo, results) ==
    LET signals == SignalsOf(results)
        s       == calculateScore(signals)
    IN  [name          |-> name,
         version       |-> version,
         latestVersion |-> packageInfo.latest,
         maintenance   |-> signals.maintenance,
         popularity    |-> signals.popularity,
         size          |-> signals.size,
         security      |-> signals.security,
         alternative   |-> getAlternative(name),
         score         |-> s,
         grade         |-> "F"]

\* the result built after the four analyzers have settled
AnalysisResultOf(name, version, packageInfo, results) ==
    LET signals == SignalsOf(results)
        s       == calculateScore(signals)
    IN  [name          |-> name,
         version       |-> version,
         latestVersion |-> packageInfo.latest,
         maintenance   |-> signals.maintenance,
         popularity    |-> signals.popularity,
         size          |-> signals.size,
         security      |-> signals.security,
         alternative   |-> getAlternative(name),
         score         |-> s,
         grade         |-> calculateGrade(s)]

\* a result carries an error marker
HasError(r) == "error" \in DOMAIN r

----------------------------------------------------------------------------
(* index.js: analyzeProject                                                *)

\* `options.useCache === false`
NoCache == ~options.cache
\* variant: dev dependencies are included whatever the option says
IncludeDevAlways == TRUE

\* `options.includeDev || false`
IncludeDev == options.dev

Batches == {"prod", "dev"}

\* Object.entries of the dependency object a batch analyzes
BatchEntries(b) ==
    IF b = "prod" THEN pkg.dependencies
    ELSE IF IncludeDev THEN pkg.devDependencies ELSE << >>

\* Under noCache every analyzePackage call starts with cache.clear(),
\* whose write of the empty cache may fail and is then swallowed.  Of the
\* clears of a batch the first `failed` fail and leave the file as it is;
\* a later failure finds the file empty already.

\* the cache the i-th call of a batch looks its metadata up in
CacheSeenBy(i, c, failed) ==
    IF NoCache /\ i > failed THEN {} ELSE c

\* the synchronous start of one analyzePackage call: cache.clear() under
\* noCache, then the cache lookup of cachedFetch for the metadata.
\* `stale` collects the keys the call was served from an entry written
\* before the run.
Dispatched(entry, c, before) ==
    [pc |-> "getPackageInfo", hit |-> PkgKey(entry.name) \in c,
     stale |-> {PkgKey(entry.name)} \cap c \cap before,
     returned |-> FALSE, packageInfo |-> Null, joined |-> FALSE,
     hitWeek |-> FALSE, hitTrend |-> FALSE,
     results |-> Null, settled |-> Null]

\* the cache after the analyzePackage calls of a batch have started
CacheAfterDispatch(entries, c, failed) ==
    IF NoCache /\ Len(entries) > failed THEN {} ELSE c

\* `entries.map(([name, version]) => analyzePackage(name, version, opts))`
DispatchBatch(entries, c, before, failed) ==
    [i \in DOMAIN entries |->
        Dispatched(entries[i], CacheSeenBy(i, c, failed), before)]

\* how many clears of a batch can fail: none without noCache, and no more
\* than the faults left
FailedClears(entries) ==
    {n \in 0..Len(entries) : /\ n > 0 => NoCache
                             /\ faults + n <= MaxFaults}

\* variant: the join waits for the analyzers that answer at once only
AnalyzersJoinedEarly(results) ==
    \A k \in DOMAIN results \ {2} : results[k].status # "pending"

\* `await Promise.allSettled([...])` of analyzePackage resumes once each of
\* the four analyzer promises has settled
AnalyzersJoined(results) ==
    \A k \in DOMAIN results : results[k].status # "pending"

\* every promise of a batch has settled
AllSettled(tasks) == \A i \in DOMAIN tasks : tasks[i].settled # Null

\* one element of `settled.map((r, i) => ...)`
SettledToResult(r, entry) ==
    IF r.status = "fulfilled" THEN r.value
    ELSE [name    |-> entry.name,
          version |-> entry.version,
          error   |-> r.reason.message,
          score   |-> 0,
          grade   |-> "F"]

\* variant: the rejected promises filtered out instead of mapped
RECURSIVE CollectFulfilledOnly(_, _)
CollectFulfilledOnly(tasks, entries) ==
    IF tasks = << >> THEN << >>
    ELSE IF Head(tasks).settled.status = "fulfilled"
         THEN << Head(tasks).settled.value >>
                 \o CollectFulfilledOnly(Tail(tasks), Tail(entries))
         ELSE CollectFulfilledOnly(Tail(tasks), Tail(entries))

\* `settled.map((r, i) => ...)`: one result per promise, by index
CollectResults(tasks, entries) ==
    [i \in DOMAIN tasks |-> SettledToResult(tasks[i].settled, entries[i])]

----------------------------------------------------------------------------
(* Spec: one run of the command line.                                      *)
(*                                                                         *)
(* analysis.prod and analysis.dev hold one task per dispatched             *)
(* analyzePackage call, by index into the batch's entries:                 *)
(*   pc = "getPackageInfo"  awaiting npmApi.getPackageInfo(name)           *)
(*   pc = "analyzers"       awaiting Promise.allSettled of the analyzers,  *)
(*                          of which maintenance, size and security, async *)
(*                          functions without await, settle when called    *)
(*   pc = "settled"         the promise has settled; `settled` holds it    *)
(* with the locals of the call: `hit`, `hitWeek`, `hitTrend` (the cache    *)
(* lookups of the three fetches), `returned` and `packageInfo` (what       *)
(* getPackageInfo gave), `results` (the four analyzer promises), `joined`  *)
(* (the call has resumed after Promise.allSettled of the four).            *)
(* Entries of the cache outlive the run (the TTL is an hour), so the       *)
(* cache is the set of its keys and a cached value is the registry's.      *)
(* A fault is a network error or timeout of one fetch, or the rejection    *)
(* of one promise; a run has at most MaxFaults of them.                    *)

Init ==
    /\ IdleScorer
    /\ IdleProject
    /\ IdleLib
    /\ pkg \in Manifests
    /\ options \in [dev : BOOLEAN, cache : BOOLEAN]
    /\ analysis = [prod |-> << >>, dev |-> << >>]
    /\ cache \in {{}, WarmCache}
    /\ preRun = cache
    /\ faults = 0
    /\ cliPc = "start"
    /\ exitCode = 0

\* cli.js run(), up to `await analyzeProject(...)`, and analyzeProject up
\* to `await Promise.allSettled(prodPromises)`
RunStart ==
    /\ cliPc = "start"
    /\ IF Len(pkg.dependencies) = 0
            /\ (~options.dev \/ Len(pkg.devDependencies) = 0)
       THEN /\ cliPc' = "exited"
            /\ exitCode' = 1
            /\ UNCHANGED << analysis, cache, preRun, faults, projectPc >>
       ELSE /\ cliPc' = "analyzing"
            /\ projectPc' = "awaitProd"
            /\ \E failed \in FailedClears(pkg.dependencies) :
                 /\ analysis' = [analysis EXCEPT
                                   !.prod = DispatchBatch(pkg.dependencies,
                                                          cache, preRun, failed)]
                 /\ cache' = CacheAfterDispatch(pkg.dependencies, cache, failed)
                 /\ faults' = faults + failed
            /\ preRun' = preRun \cap cache'
            /\ UNCHANGED exitCode
    /\ UNCHANGED << pkg, options >>
    /\ UNCHANGED << dependencies, devDependencies, projectScore, projectGrade >>
    /\ UNCHANGED scorerVars
    /\ UNCHANGED libVars

Outcome(kind, value) ==
    IF kind = "fulfilled" THEN Fulfilled(value) ELSE Rejected("analyzer failed")

FaultCount(kinds) == Cardinality({k \in DOMAIN kinds : kinds[k] \in {"rejected", "error"}})

\* analyzePackage resumes after `await npmApi.getPackageInfo(name)`:
\* cachedFetch returned the cached or fetched metadata, or null on a 404
\* or a network error; with metadata the four analyzers are started
GetPackageInfoReturns(b, i) ==
    /\ i \in DOMAIN analysis[b]
    /\ analysis[b][i].pc = "getPackageInfo"
    /\ LET t     == analysis[b][i]
           entry == BatchEntries(b)[i]
       IN  \E outcome \in {"ok", "error"},
              kinds \in [maintenance : {"fulfilled", "rejected"},
                         size        : {"fulfilled", "rejected"},
                         security    : {"fulfilled", "rejected"}] :
             /\ outcome = "error" => (~t.hit /\ faults < MaxFaults)
             /\ LET packageInfo == IF outcome = "ok"
                                   THEN RegistryInfo(entry.name) ELSE Null
                    stored == IF ~t.hit /\ packageInfo # Null
                              THEN {PkgKey(entry.name)} ELSE {}
                    started ==
                        << Outcome(kinds.maintenance,
                                   analyzeMaintenance(packageInfo)),
                           PendingPromise,
                           Outcome(kinds.size, analyzeSize(packageInfo)),
                           Outcome(kinds.security,
                                   analyzeSecurity(entry.name, entry.version)) >>
                IN  /\ IF packageInfo = Null
                       THEN /\ FaultCount(kinds) = 0
                            /\ faults' = IF outcome = "error"
                                          THEN faults + 1 ELSE faults
                       ELSE /\ faults + FaultCount(kinds) <= MaxFaults
                            /\ faults' = faults + FaultCount(kinds)
                    /\ cache' = cache \cup stored
                    /\ analysis' = [analysis EXCEPT ![b][i] =
                          IF packageInfo = Null
                          THEN [t EXCEPT
                                  !.pc = "settled",
                                  !.returned = TRUE,
                                  !.settled = Fulfilled(
                                      NotFoundResult(entry.name, entry.version))]
                          ELSE [t EXCEPT
                                  !.pc = "analyzers",
                                  !.returned = TRUE,
                                  !.packageInfo = packageInfo,
                                  !.results = started,
                                  !.hitWeek = WeekKey(entry.name) \in cache',
                                  !.hitTrend = TrendKey(entry.name) \in cache',
                                  !.stale = @ \cup
                                      ({WeekKey(entry.name),
                                        TrendKey(entry.name)} \cap preRun)]]
    /\ UNCHANGED << pkg, options, preRun, cliPc, exitCode >>
    /\ UNCHANGED << projectVars, scorerVars >>
    /\ UNCHANGED libVars

\* the promise of analyzePopularity settles: the two download fetches it
\* awaits with Promise.all have returned (each stored in the cache when it
\* was fetched), or the promise rejects
PopularitySettles(b, i) ==
    /\ i \in DOMAIN analysis[b]
    /\ analysis[b][i].pc = "analyzers"
    /\ analysis[b][i].results[2].status = "pending"
    /\ LET t     == analysis[b][i]
           entry == BatchEntries(b)[i]
       IN  \E kinds \in [popularity  : {"fulfilled", "rejected"},
                         week        : {"ok", "error"},
                         trend       : {"ok", "error"}] :
             /\ t.hitWeek => kinds.week = "ok"
             /\ t.hitTrend => kinds.trend = "ok"
             /\ faults + FaultCount(kinds) <= MaxFaults
             /\ faults' = faults + FaultCount(kinds)
             /\ LET weeklyData == IF kinds.week = "ok"
                                  THEN RegistryWeekly(entry.name) ELSE Null
                    trendData  == IF kinds.trend = "ok"
                                  THEN RegistryTrend(entry.name) ELSE Null
                    stored ==
                        (IF ~t.hitWeek /\ weeklyData # Null
                         THEN {WeekKey(entry.name)} ELSE {})
                          \cup (IF ~t.hitTrend /\ trendData # Null
                                THEN {TrendKey(entry.name)} ELSE {})
                IN  /\ cache' = cache \cup stored
                    /\ analysis' = [analysis EXCEPT ![b][i].results[2] =
                          Outcome(kinds.popularity,
                                  analyzePopularity(weeklyData, trendData))]
    /\ UNCHANGED << pkg, options, preRun, cliPc, exitCode >>
    /\ UNCHANGED << projectVars, scorerVars >>
    /\ UNCHANGED libVars

\* analyzePackage resumes after `await Promise.allSettled([...])`: the
\* four analyzers have settled, and the result is built, scored and graded
AnalyzersSettle(b, i) ==
    /\ i \in DOMAIN analysis[b]
    /\ analysis[b][i].pc = "analyzers"
    /\ AnalyzersJoined(analysis[b][i].results)
    /\ LET t     == analysis[b][i]
           entry == BatchEntries(b)[i]
       IN  analysis' = [analysis EXCEPT ![b][i] =
              [t EXCEPT
                 !.pc = "settled",
                 !.joined = TRUE,
                 !.settled =
                    IF calculateScoreThrows(SignalsOf(t.results))
                    THEN Rejected("TypeError")
                    ELSE Fulfilled(AnalysisResultOf(
                            entry.name, entry.version,
                            t.packageInfo, t.results))]]
    /\ UNCHANGED << pkg, options, cache, preRun, faults, cliPc, exitCode >>
    /\ UNCHANGED << projectVars, scorerVars >>
    /\ UNCHANGED libVars

\* the promise of an analyzePackage call rejects
AnalyzePackageRejects(b, i) ==
    /\ i \in DOMAIN analysis[b]
    /\ analysis[b][i].pc \in {"getPackageInfo", "analyzers"}
    /\ faults < MaxFaults
    /\ faults' = faults + 1
    /\ analysis' = [analysis EXCEPT ![b][i] =
                      [@ EXCEPT !.pc = "settled",
                                !.settled = Rejected("Analysis failed")]]
    /\ UNCHANGED << pkg, options, cache, preRun, cliPc, exitCode >>
    /\ UNCHANGED << projectVars, scorerVars >>
    /\ UNCHANGED libVars

\* analyzeProject resumes after `await Promise.allSettled(prodPromises)`:
\* collects the production results, then either starts the dev batch or
\* computes the project score and returns
ProdSettled ==
    /\ projectPc = "awaitProd"
    /\ AllSettled(analysis.prod)
    /\ dependencies' = CollectResults(analysis.prod, BatchEntries("prod"))
    /\ IF IncludeDev
       THEN /\ \E failed \in FailedClears(BatchEntries("dev")) :
                 /\ analysis' = [analysis EXCEPT
                                   !.dev = DispatchBatch(BatchEntries("dev"),
                                                         cache, preRun, failed)]
                 /\ cache' = CacheAfterDispatch(BatchEntries("dev"), cache,
                                                failed)
                 /\ faults' = faults + failed
            /\ preRun' = preRun \cap cache'
            /\ projectPc' = "awaitDev"
            /\ UNCHANGED << devDependencies, projectScore, projectGrade >>
       ELSE /\ devDependencies' = << >>
            /\ projectScore' = calculateProjectScore(dependencies', << >>)
            /\ projectGrade' = calculateGrade(projectScore')
            /\ projectPc' = "returned"
            /\ UNCHANGED << analysis, cache, preRun, faults >>
    /\ UNCHANGED << pkg, options, cliPc, exitCode >>
    /\ UNCHANGED scorerVars
    /\ UNCHANGED libVars

\* analyzeProject resumes after `await Promise.allSettled(devPromises)`
DevSettled ==
    /\ projectPc = "awaitDev"
    /\ AllSettled(analysis.dev)
    /\ devDependencies' = CollectResults(analysis.dev, BatchEntries("dev"))
    /\ projectScore' = calculateProjectScore(dependencies, devDependencies')
    /\ projectGrade' = calculateGrade(projectScore')
    /\ projectPc' = "returned"
    /\ UNCHANGED dependencies
    /\ UNCHANGED runVars
    /\ UNCHANGED scorerVars
    /\ UNCHANGED libVars

\* variant: only the production results are looked at
ExitScopeProdOnly(deps, devDeps, dev) == deps

\* `results.dependencies.concat(options.dev ? results.devDependencies : [])`
ExitScope(deps, devDeps, dev) == deps \o (IF dev THEN devDeps ELSE << >>)

\* `allDeps.some(d => d.grade === 'F')`
HasF(allDeps) == \E k \in DOMAIN allDeps : allDeps[k].grade = "F"

\* cli.js run() after the analysis: the report is rendered and the process
\* exits with 1 if a dependency in scope has grade F, with 0 otherwise
RunFinish ==
    /\ cliPc = "analyzing"
    /\ projectPc = "returned"
    /\ exitCode' = IF HasF(ExitScope(dependencies, devDependencies, options.dev))
                   THEN 1 ELSE 0
    /\ cliPc' = "exited"
    /\ UNCHANGED << pkg, options, analysis, cache, preRun, faults >>
    /\ UNCHANGED << projectVars, scorerVars >>
    /\ UNCHANGED libVars

Next ==
    \/ RunStart
    \/ \E b \in Batches, i \in 1..MaxDeps : GetPackageInfoReturns(b, i)
    \/ \E b \in Batches, i \in 1..MaxDeps : PopularitySettles(b, i)
    \/ \E b \in Batches, i \in 1..MaxDeps : AnalyzersSettle(b, i)
    \/ \E b \in Batches, i \in 1..MaxDeps : AnalyzePackageRejects(b, i)
    \/ ProdSettled
    \/ DevSettled
    \/ RunFinish

Spec == Init /\ [][Next]_vars

\* @@RUN@@
----------------------------------------------------------------------------
(* Properties of the scorer.                                               *)

AllPresent(r) ==
    /\ Truthy(r.maintenance)
    /\ Truthy(r.popularity)
    /\ Truthy(r.size)
    /\ Truthy(r.security)

\* the sum of the five amounts recorded for the last calculateScore call
PointsSum ==
    points.maintenance + points.popularity + points.size
        + points.security + points.trend

\* the documented table, bucket by bucket
TableMaintenance(status) ==
    IF status = "active" THEN 30 ELSE IF status = "stale" THEN 15 ELSE 0
TableDownloads(dl) ==
    IF dl > 1000000 THEN 20
    ELSE IF dl > 100000 THEN 15
    ELSE IF dl > 10000 THEN 10
    ELSE IF dl > 1000 THEN 5
    ELSE 0
TableSize(bytes) ==
    IF bytes < 100 * 1024 THEN 15
    ELSE IF bytes < 500 * 1024 THEN 12
    ELSE IF bytes < 1024 * 1024 THEN 8
    ELSE IF bytes < 5 * 1024 * 1024 THEN 4
    ELSE 0
TableSecurity(sev) ==
    IF sev = "none" THEN 25
    ELSE IF sev = "low" THEN 15
    ELSE IF sev = "moderate" THEN 8
    ELSE IF sev = "high" THEN 2
    ELSE 0
TableTrend(trend) ==
    IF trend = "growing" THEN 10 ELSE IF trend = "stable" THEN 7 ELSE 2

\* the table's sum for a bundle with all four records, the size bucket
\* given by sizeRule
TableSum(r, sizeRule(_)) ==
    TableMaintenance(r.maintenance.status)
        + TableDownloads(r.popularity.weeklyDownloads)
        + sizeRule(r.size.unpackedSize)
        + TableSecurity(r.security.severity)
        + TableTrend(r.popularity.trend)

\* the size bucket with the unknown size (0 bytes) given 8 points
TableSizeWithUnknown(bytes) == IF bytes = 0 THEN 8 ELSE TableSize(bytes)

PerfectBundle ==
    [maintenance |-> [status |-> "active"],
     popularity  |-> [weeklyDownloads |-> 2000000, trend |-> "growing"],
     size        |-> [unpackedSize |-> 50000],
     security    |-> [severity |-> "none"]]
WorstBundle ==
    [maintenance |-> [status |-> "abandoned"],
     popularity  |-> [weeklyDownloads |-> 50, trend |-> "declining"],
     size        |-> [unpackedSize |-> 10000000],
     security    |-> [severity |-> "critical"]]
MixedBundle ==
    [maintenance |-> [status |-> "stale"],
     popularity  |-> [weeklyDownloads |-> 50000, trend |-> "stable"],
     size        |-> [unpackedSize |-> 200000],
     security    |-> [severity |-> "moderate"]]

TableExamples ==
    /\ analysisResult = PerfectBundle => score = 100
    /\ analysisResult = WorstBundle => score = 2
    /\ analysisResult = MixedBundle => score = 52

\* C1: for every signal bundle, whichever of its four records are missing,
\* calculateScore does not throw and returns an integer between 0 and 100.
C1_ScoreInRange ==
    scorePc # "input" => (~threw /\ score \in 0..100)

\* C1 witness: a bundle with a missing record and a present one was scored.
C1_Witness ==
    /\ scorePc = "scored"
    /\ ~Truthy(analysisResult.maintenance)
    /\ ~Truthy(analysisResult.size)
    /\ Truthy(analysisResult.security)
    /\ score = 25

\* C2 as stated: with all four records present the score is the sum of the
\* five table buckets, the size bucket being <100KiB 15, <500KiB 12,
\* <1MiB 8, <5MiB 4, else 0; the three worked examples score 100, 2 and 52.
C2_TableSumAsStated ==
    (scorePc = "scored" /\ AllPresent(analysisResult)) =>
        /\ score = TableSum(analysisResult, TableSize)
        /\ TableExamples

\* C2 amended: with all four records present the score is the sum of the
\* five table buckets, where a size record of 0 bytes (unknown) takes 8
\* points instead of the 15 of the <100KiB band; the three worked examples
\* score 100, 2 and 52.
C2_TableSum ==
    (scorePc = "scored" /\ AllPresent(analysisResult)) =>
        /\ score = TableSum(analysisResult, TableSizeWithUnknown)
        /\ TableExamples

\* C2 witness: the stale / 50,000 / stable / 200,000-byte / moderate bundle
\* was scored 52.
C2_Witness ==
    /\ scorePc = "scored"
    /\ analysisResult = MixedBundle
    /\ score = 52

\* C3: a weeklyDownloads equal to a band boundary earns the next lower
\* band and one more earns the band itself; an unpackedSize equal to a
\* band boundary earns the next lower band and one byte less earns the
\* band itself; the score is the sum of the buckets.
C3_BandBoundaries ==
    scorePc = "scored" =>
        /\ score = PointsSum
        /\ Truthy(analysisResult.popularity) =>
             LET dl == analysisResult.popularity.weeklyDownloads
                 p  == points.popularity
             IN  /\ dl = 1000000 => p = 15
                 /\ dl = 1000001 => p = 20
                 /\ dl = 100000 => p = 10
                 /\ dl = 100001 => p = 15
                 /\ dl = 10000 => p = 5
                 /\ dl = 10001 => p = 10
                 /\ dl = 1000 => p = 0
                 /\ dl = 1001 => p = 5
        /\ Truthy(analysisResult.size) =>
             LET bytes == analysisResult.size.unpackedSize
                 p     == points.size
             IN  /\ bytes = 100 * 1024 => p = 12
                 /\ bytes = 100 * 1024 - 1 => p = 15
                 /\ bytes = 500 * 1024 => p = 8
                 /\ bytes = 500 * 1024 - 1 => p = 12
                 /\ bytes = 1024 * 1024 => p = 4
                 /\ bytes = 1024 * 1024 - 1 => p = 8
                 /\ bytes = 5 * 1024 * 1024 => p = 0
                 /\ bytes = 5 * 1024 * 1024 - 1 => p = 4

\* C3 witness: a bundle with exactly 1,000,000 weekly downloads and exactly
\* 100 KiB was scored.
C3_Witness ==
    /\ scorePc = "scored"
    /\ Truthy(analysisResult.popularity)
    /\ Truthy(analysisResult.size)
    /\ analysisResult.popularity.weeklyDownloads = 1000000
    /\ analysisResult.size.unpackedSize = 100 * 1024
    /\ points.popularity = 15
    /\ points.size = 12

\* C4: every integer score from 0 to 100 gets exactly the grade of its
\* band: A for 80..100, B for 60..79, C for 40..59, D for 20..39, F for
\* 0..19.
C4_GradeBands ==
    scorePc = "graded" =>
        /\ grade \in {"A", "B", "C", "D", "F"}
        /\ grade = "A" <=> score \in 80..100
        /\ grade = "B" <=> score \in 60..79
        /\ grade = "C" <=> score \in 40..59
        /\ grade = "D" <=> score \in 20..39
        /\ grade = "F" <=> score \in 0..19

\* C4 witness: the score 79, one below a boundary, was graded B.
C4_Witness ==
    /\ scorePc = "graded"
    /\ score = 79
    /\ grade = "B"

RECURSIVE SumScores(_)
SumScores(results) ==
    IF results = << >> THEN 0
    ELSE Head(results).score + SumScores(Tail(results))

\* r is n / d rounded to the nearest integer, halves up
IsRounded(r, n, d) ==
    /\ (2 * r - 1) * d <= 2 * n
    /\ 2 * n < (2 * r + 1) * d

\* C5: calculateProjectScore is 0 for two empty sequences and otherwise
\* (2 * sumProd + sumDev) / (2 * nProd + nDev) rounded to the nearest
\* integer, halves up; prod [80,60] with dev [40] gives 64 and prod [90,70]
\* with no dev gives 80.
C5_WeightedMean ==
    projectPc = "returned" =>
        LET n == 2 * SumScores(dependencies) + SumScores(devDependencies)
            d == 2 * Len(dependencies) + Len(devDependencies)
        IN  /\ d = 0 => projectScore = 0
            /\ d > 0 => IsRounded(projectScore, n, d)
            /\ (/\ dependencies = << [score |-> 80], [score |-> 60] >>
                /\ devDependencies = << [score |-> 40] >>) => projectScore = 64
            /\ (/\ dependencies = << [score |-> 90], [score |-> 70] >>
                /\ devDependencies = << >>) => projectScore = 80

\* C5 witness: prod [80,60] with dev [40] was aggregated to 64.
C5_Witness ==
    /\ projectPc = "returned"
    /\ dependencies = << [score |-> 80], [score |-> 60] >>
    /\ devDependencies = << [score |-> 40] >>
    /\ projectScore = 64

\* C10: a size record of 0 bytes adds exactly 8 points and a missing size
\* record adds none; a known size under 500 KiB adds more than 8 and a
\* known size of 1 MiB or more adds less than 8; the score is the sum of
\* the buckets.
C10_UnknownSize ==
    scorePc = "scored" =>
        /\ score = PointsSum
        /\ ~Truthy(analysisResult.size) => points.size = 0
        /\ Truthy(analysisResult.size) =>
             LET bytes == analysisResult.size.unpackedSize
             IN  /\ bytes = 0 => points.size = 8
                 /\ (bytes > 0 /\ bytes < 500 * 1024) => points.size > 8
                 /\ bytes >= 1024 * 1024 => points.size < 8

\* C10 witness: a bundle whose size record holds 0 bytes was scored, the
\* size bucket adding 8.
C10_Witness ==
    /\ scorePc = "scored"
    /\ Truthy(analysisResult.size)
    /\ analysisResult.size.unpackedSize = 0
    /\ points.size = 8

----------------------------------------------------------------------------
(* Properties of the run.                                                  *)

\* the dispatched analyzePackage calls, as <<batch, index>>
Tasks == {<<b, i>> \in Batches \X (1..MaxDeps) : i \in DOMAIN analysis[b]}
TaskOf(bi) == analysis[bi[1]][bi[2]]
EntryAt(bi) == BatchEntries(bi[1])[bi[2]]

\* the security analyzer of a finished call rejected, the other three
\* fulfilled
OnlySecurityFailed(t) ==
    /\ t.pc = "settled"
    /\ t.joined
    /\ t.results[1].status = "fulfilled"
    /\ t.results[2].status = "fulfilled"
    /\ t.results[3].status = "fulfilled"
    /\ t.results[4].status = "rejected"

\* the bundle of the three fulfilled analyzers, the security record missing
WithoutSecurity(t) ==
    [maintenance |-> t.results[1].value,
     popularity  |-> t.results[2].value,
     size        |-> t.results[3].value,
     security    |-> Absent]

\* C6 as stated: when the security analyzer fails and the other three
\* succeed, the score is the score of the bundle with the security record
\* absent (security adds 0 points).
C6_SecurityAbsentAsStated ==
    \A bi \in Tasks :
        OnlySecurityFailed(TaskOf(bi)) =>
            /\ TaskOf(bi).settled.status = "fulfilled"
            /\ TaskOf(bi).settled.value.score
                   = calculateScore(WithoutSecurity(TaskOf(bi)))

\* C6 amended: when the security analyzer fails and the other three
\* succeed, the result holds the clean security record (0 vulnerabilities,
\* severity none) and its score is the score of the other three dimensions
\* plus the 25 points of severity none.
C6_SecurityDefaultsToClean ==
    \A bi \in Tasks :
        OnlySecurityFailed(TaskOf(bi)) =>
            /\ TaskOf(bi).settled.status = "fulfilled"
            /\ TaskOf(bi).settled.value.security
                   = [vulnerabilities |-> 0, severity |-> "none"]
            /\ TaskOf(bi).settled.value.score
                   = calculateScore(WithoutSecurity(TaskOf(bi))) + 25
            /\ ~HasError(TaskOf(bi).settled.value)

\* C6 witness: express was analyzed with only the security analyzer
\* failing, and scored 100.
C6_Witness ==
    \E bi \in Tasks :
        /\ OnlySecurityFailed(TaskOf(bi))
        /\ EntryAt(bi).name = "express"
        /\ TaskOf(bi).settled.status = "fulfilled"
        /\ TaskOf(bi).settled.value.score = 100

\* getPackageInfo of a call returned null
MetadataMissing(t) == t.returned /\ t.packageInfo = Null

\* C7: when getPackageInfo yields null, analyzePackage fulfils (does not
\* throw) with a result of score 0, grade F, a non-empty error marker and
\* the substituted signals: abandoned with infinite daysSincePublish,
\* 0 downloads / stable / 0 percent, size 0 (unknown), severity none with
\* 0 vulnerabilities.
C7_NotFoundResult ==
    \A bi \in Tasks :
        MetadataMissing(TaskOf(bi)) =>
            /\ TaskOf(bi).pc = "settled"
            /\ TaskOf(bi).settled.status = "fulfilled"
            /\ LET r == TaskOf(bi).settled.value
               IN  /\ r.name = EntryAt(bi).name
                   /\ r.score = 0
                   /\ r.grade = "F"
                   /\ HasError(r)
                   /\ r.error # ""
                   /\ r.maintenance.status = "abandoned"
                   /\ r.maintenance.daysSincePublish = Infinity
                   /\ r.popularity.weeklyDownloads = 0
                   /\ r.popularity.trend = "stable"
                   /\ r.popularity.trendPercent = 0
                   /\ r.size.unpackedSize = 0
                   /\ r.size.unpackedSizeHuman = "unknown"
                   /\ r.security.severity = "none"
                   /\ r.security.vulnerabilities = 0

\* C7 witness: the metadata fetch of express, which the registry has,
\* failed on the network and the call has settled.
C7_Witness ==
    \E bi \in Tasks :
        /\ MetadataMissing(TaskOf(bi))
        /\ EntryAt(bi).name = "express"
        /\ TaskOf(bi).pc = "settled"
        /\ TaskOf(bi).settled.value.grade = "F"

\* the placeholder analyzeProject substitutes for a rejected analysis
IsPlaceholder(r, entry) ==
    /\ DOMAIN r = {"name", "version", "error", "score", "grade"}
    /\ r.name = entry.name
    /\ r.version = entry.version
    /\ r.score = 0
    /\ r.grade = "F"

\* every result the analysis of one entry can produce by itself, whatever
\* the other entries of the manifest are and whatever happens to them
OwnResults(entry) ==
    {NotFoundResult(entry.name, entry.version)}
      \cup (IF RegistryInfo(entry.name) = Null THEN {}
            ELSE {AnalysisResultOf(entry.name, entry.version,
                                   RegistryInfo(entry.name),
                                   << Outcome(k[1], analyzeMaintenance(RegistryInfo(entry.name))),
                                      Outcome(k[2], analyzePopularity(k[5], k[6])),
                                      Outcome(k[3], analyzeSize(RegistryInfo(entry.name))),
                                      Outcome(k[4], analyzeSecurity(entry.name, entry.version)) >>) :
                    k \in {"fulfilled", "rejected"} \X {"fulfilled", "rejected"}
                            \X {"fulfilled", "rejected"} \X {"fulfilled", "rejected"}
                            \X {RegistryWeekly(entry.name), Null}
                            \X {RegistryTrend(entry.name), Null}})

\* OwnResults, tabulated by package name
OwnResultsByName == [n \in PackageNames |-> OwnResults(EntryOf(n))]

\* results holds exactly one result per entry, in the entries' order, each
\* the outcome of that entry's own analysis
OnePerEntry(results, entries, tasks) ==
    /\ Len(results) = Len(entries)
    /\ \A i \in DOMAIN entries :
         /\ results[i].name = entries[i].name
         /\ results[i].version = entries[i].version
         /\ tasks[i].settled.status = "fulfilled"
              => (results[i] = tasks[i].settled.value
                    /\ results[i] \in OwnResultsByName[entries[i].name])
         /\ tasks[i].settled.status = "rejected"
              => IsPlaceholder(results[i], entries[i])

C9_ExitNonZeroOnF ==
    (cliPc = "exited" /\ projectPc = "returned") =>
        ((\/ \E k \in DOMAIN dependencies : dependencies[k].grade = "F"
          \/ (options.dev
                /\ \E k \in DOMAIN devDependencies :
                      devDependencies[k].grade = "F"))
           => exitCode # 0)

\* C9 witness: with --dev, only a dev dependency has grade F and the
\* process exited with a non-zero code.
C9_Witness ==
    /\ cliPc = "exited"
    /\ projectPc = "returned"
    /\ options.dev
    /\ dependencies # << >>
    /\ \A k \in DOMAIN dependencies : dependencies[k].grade # "F"
    /\ \E k \in DOMAIN devDependencies : devDependencies[k].grade = "F"
    /\ exitCode # 0

----------------------------------------------------------------------------
(* Missing signal records.                                                 *)

\* the table's buckets of the records a bundle has: nothing for a missing
\* record, and neither downloads nor trend without the popularity record
PresentTableSum(r) ==
    (IF Truthy(r.maintenance)
       THEN TableMaintenance(r.maintenance.status) ELSE 0)
    + (IF Truthy(r.popularity)
         THEN TableDownloads(r.popularity.weeklyDownloads)
                + TableTrend(r.popularity.trend)
         ELSE 0)
    + (IF Truthy(r.size)
         THEN TableSizeWithUnknown(r.size.unpackedSize) ELSE 0)
    + (IF Truthy(r.security)
         THEN TableSecurity(r.security.severity) ELSE 0)

EmptyBundle ==
    [maintenance |-> Absent, popularity |-> Absent, size |-> Absent,
     security |-> Absent]

\* C11: every missing signal record contributes 0 points, a missing
\* popularity record zeroing both the downloads and the trend bucket; the
\* bundle with no record scores 0 and grades F; a bundle with some records
\* missing scores exactly the sum of the buckets of the records it has.
C11_MissingRecordsScoreZero ==
    scorePc \in {"scored", "graded"} =>
        /\ ~Truthy(analysisResult.maintenance) => points.maintenance = 0
        /\ ~Truthy(analysisResult.popularity) =>
             (points.popularity = 0 /\ points.trend = 0)
        /\ ~Truthy(analysisResult.size) => points.size = 0
        /\ ~Truthy(analysisResult.security) => points.security = 0
        /\ score = PresentTableSum(analysisResult)
        /\ analysisResult = EmptyBundle => score = 0
        /\ (analysisResult = EmptyBundle /\ scorePc = "graded") => grade = "F"

\* C11 witness: a bundle without popularity and size records, active and
\* free of vulnerabilities, was scored 30 + 25 with nothing for downloads,
\* trend and size.
C11_Witness ==
    /\ scorePc = "graded"
    /\ ~Truthy(analysisResult.popularity)
    /\ ~Truthy(analysisResult.size)
    /\ Truthy(analysisResult.maintenance)
    /\ Truthy(analysisResult.security)
    /\ points.popularity = 0
    /\ points.trend = 0
    /\ points.size = 0
    /\ score = 55

----------------------------------------------------------------------------
(* SpecMaintenance: analyzeMaintenance on one packageInfo.                 *)

InitMaintenance ==
    /\ maintenanceInput \in MaintenanceInputs
    /\ maintenanceResult = << >>
    /\ maintenancePc = "input"
    /\ IdleScorer
    /\ IdleProject
    /\ IdleRun
    /\ IdleTrend
    /\ IdleCache
    /\ IdleFetch
    /\ IdleReport

\* maintenanceResult = await analyzeMaintenance(maintenanceInput)
AnalyzeMaintenance ==
    /\ maintenancePc = "input"
    /\ IF analyzeMaintenanceThrows(maintenanceInput)
       THEN /\ maintenancePc' = "rejected"
            /\ UNCHANGED maintenanceResult
       ELSE /\ maintenancePc' = "returned"
            /\ maintenanceResult' = analyzeMaintenance(maintenanceInput)
    /\ UNCHANGED maintenanceInput
    /\ UNCHANGED << appVars, trendVars, cacheVars, fetchVars, reportVars >>

NextMaintenance == AnalyzeMaintenance

SpecMaintenance == InitMaintenance /\ [][NextMaintenance]_vars

\* C12: in every result analyzeMaintenance returns the status is decided by
\* daysSincePublish alone: active below 180, stale from 180 up to 539,
\* abandoned from 540 on; 179 is active, 180 stale, 539 stale, 540 abandoned.
C12_StatusFromDays ==
    maintenancePc = "returned" =>
        LET d == maintenanceResult.daysSincePublish
            s == maintenanceResult.status
        IN  /\ d < 180 => s = "active"
            /\ (180 <= d /\ d < 540) => s = "stale"
            /\ d >= 540 => s = "abandoned"
            /\ d = 179 => s = "active"
            /\ d = 180 => s = "stale"
            /\ d = 539 => s = "stale"
            /\ d = 540 => s = "abandoned"

\* C12 witness: a publish 539 days and 23 hours back was returned as stale.
C12_Witness ==
    /\ maintenancePc = "returned"
    /\ maintenanceInput # Null
    /\ maintenanceInput.time # Null
    /\ LastPublishDate(maintenanceInput) = Ago(539, 23)
    /\ maintenanceResult.daysSincePublish = 539
    /\ maintenanceResult.status = "stale"

\* no publish date can be determined from a packageInfo: the metadata is
\* missing, it has no `time` object, or the `time` object has no entry for
\* the latest dist-tag, no `modified` entry and no entry of another version
NoPublishDate(packageInfo) ==
    \/ packageInfo = Null
    \/ packageInfo.time = Null
    \/ DOMAIN packageInfo.time \subseteq {"created"}

\* C13: whenever no publish date can be determined (metadata missing, no
\* time record, or a time record without an entry for the latest tag,
\* without `modified` and without any other dated entry) the maintenance
\* signal is daysSincePublish infinite, lastPublish unknown, status
\* abandoned.
C13_NoDateIsInfinite ==
    (maintenancePc = "returned" /\ NoPublishDate(maintenanceInput)) =>
        /\ maintenanceResult.daysSincePublish = Infinity
        /\ maintenanceResult.lastPublish = "unknown"
        /\ maintenanceResult.status = "abandoned"

----------------------------------------------------------------------------
(* SpecTrend: getDownloadTrend and analyzePopularity on one pair of        *)
(* 7-day totals.                                                           *)

\* largest 7-day total of the enumerated pairs
MaxTotal == 24

\* the pairs of totals: every pair up to MaxTotal, and pairs whose change
\* lies just beyond or on the half between 10.0 and 10.1 percent
TrendInputs ==
    {[recent |-> r, sixMonthsAgo |-> p] : r, p \in 0..MaxTotal}
      \cup {[recent |-> 230, sixMonthsAgo |-> 209],
            [recent |-> 188, sixMonthsAgo |-> 209],
            [recent |-> 2201, sixMonthsAgo |-> 2000],
            [recent |-> 1799, sixMonthsAgo |-> 2000]}
      \cup {Null}

InitTrend ==
    /\ trendInput \in TrendInputs
    /\ trendResult = << >>
    /\ popularityResult = << >>
    /\ trendPc = "input"
    /\ IdleScorer
    /\ IdleProject
    /\ IdleRun
    /\ IdleMaintenance
    /\ IdleCache
    /\ IdleFetch
    /\ IdleReport

\* trendData = await getDownloadTrend(name)
GetDownloadTrend ==
    /\ trendPc = "input"
    /\ trendResult' = getDownloadTrend(trendInput)
    /\ trendPc' = "derived"
    /\ UNCHANGED << trendInput, popularityResult >>
    /\ UNCHANGED << appVars, maintenanceVars, cacheVars, fetchVars, reportVars >>

\* the rest of analyzePopularity, the weekly count having failed or not
AnalyzePopularity ==
    /\ trendPc = "derived"
    /\ \E weeklyData \in {Null, [downloads |-> 50]} :
           popularityResult' = analyzePopularity(weeklyData, trendResult)
    /\ trendPc' = "analyzed"
    /\ UNCHANGED << trendInput, trendResult >>
    /\ UNCHANGED << appVars, maintenanceVars, cacheVars, fetchVars, reportVars >>

NextTrend == GetDownloadTrend \/ AnalyzePopularity

SpecTrend == InitTrend /\ [][NextTrend]_vars

\* tenths is (r - p) / p * 100 rounded to one decimal: no number with one
\* decimal lies nearer
IsRoundedPercent(tenths, r, p) ==
    LET diff == 1000 * (r - p) - tenths * p
    IN  2 * diff <= p /\ 2 * diff >= 0 - p

\* C14: from the recent total R and the prior total P: if P > 0, percent is
\* (R - P) / P * 100 rounded to one decimal and the trend is growing when
\* percent > 10, declining when percent < -10, stable otherwise, exactly
\* 10.0 and -10.0 being stable; if P = 0 and R > 0 the trend is growing and
\* percent 100; if both are 0 the trend is stable and percent 0.
C14_TrendDerivation ==
    (trendPc \in {"derived", "analyzed"} /\ trendInput # Null) =>
        LET R == trendInput.recent
            P == trendInput.sixMonthsAgo
            t == trendResult.trend
            percent == trendResult.percent
        IN  /\ P > 0 =>
                 /\ IsRoundedPercent(percent, R, P)
                 /\ percent > 100 => t = "growing"
                 /\ percent < 0 - 100 => t = "declining"
                 /\ (percent >= 0 - 100 /\ percent <= 100) => t = "stable"
            /\ (P = 0 /\ R > 0) => (t = "growing" /\ percent = 1000)
            /\ (P = 0 /\ R = 0) => (t = "stable" /\ percent = 0)
            /\ trendPc = "analyzed" =>
                 /\ popularityResult.trend = t
                 /\ popularityResult.trendPercent = percent

\* C14 witness: 11 against 10 is +10.0 percent and was reported stable.
C14_Witness ==
    /\ trendPc = "analyzed"
    /\ trendInput = [recent |-> 11, sixMonthsAgo |-> 10]
    /\ trendResult.percent = 100
    /\ popularityResult.trend = "stable"

----------------------------------------------------------------------------
(* lib/cache.js                                                            *)

\* const DEFAULT_TTL = 60 * 60 * 1000
DEFAULT_TTL == 60 * 60 * 1000

\* the object `{}`
EmptyCache == [k \in {} |-> Null]

\* a cache file that does not exist or does not parse
Unreadable == [readable |-> FALSE, entries |-> EmptyCache]

\* readCache: the parsed file, `{}` when it is missing or unreadable
readCache(file) == IF file.readable THEN file.entries ELSE EmptyCache

\* the ways writeFileSync can end: the file written; an error before the
\* file is touched; an error after the file was truncated
WriteOutcomes == {"ok", "unchanged", "truncated"}

\* writeCache: write the object, swallowing a failure
writeCache(file, data, outcome) ==
    CASE outcome = "ok"        -> [readable |-> TRUE, entries |-> data]
      [] outcome = "unchanged" -> file
      [] OTHER                 -> Unreadable

\* `typeof ttlMs === 'number' ? ttlMs : DEFAULT_TTL`
TtlOf(ttlMs) == IF ttlMs = Null THEN DEFAULT_TTL ELSE ttlMs.ms

\* a number argument
Ms(n) == [ms |-> n]

\* expiresAt as it comes back from the file: JSON.stringify writes a
\* number that is not finite as null, which the comparison of get reads
\* as 0
ExpiresAt(t, ttl) == IF ttl = Infinity THEN 0 ELSE t + ttl

\* variant: an entry counts as expired from expiresAt on
getExpiredAtDeadline(file, key, t) ==
    LET c == readCache(file)
    IN  IF key \notin DOMAIN c THEN Null
        ELSE IF t >= c[key].expiresAt THEN Null
        ELSE c[key].value

\* the value get(key) returns at time t
get(file, key, t) ==
    LET c == readCache(file)
    IN  IF key \notin DOMAIN c THEN Null
        ELSE IF t > c[key].expiresAt THEN Null
        ELSE c[key].value

\* get(key) found an expired entry, which it deletes
Expired(file, key, t) ==
    LET c == readCache(file)
    IN  key \in DOMAIN c /\ t > c[key].expiresAt

\* the file after get(key) at time t
AfterGet(file, key, t, outcome) ==
    LET c == readCache(file)
    IN  IF Expired(file, key, t)
        THEN writeCache(file, [k \in DOMAIN c \ {key} |-> c[k]], outcome)
        ELSE file

\* variant: set writes a file that holds the new entry only
AfterSetAlone(file, key, value, ttlMs, t, outcome) ==
    LET entry == [value |-> value, expiresAt |-> ExpiresAt(t, TtlOf(ttlMs))]
    IN  writeCache(file, (key :> entry), outcome)

\* the file after set(key, value, ttlMs) at time t
AfterSet(file, key, value, ttlMs, t, outcome) ==
    LET c     == readCache(file)
        entry == [value |-> value, expiresAt |-> ExpiresAt(t, TtlOf(ttlMs))]
    IN  writeCache(file, (key :> entry) @@ c, outcome)

\* variant: clear() leaves the file as it is
AfterClearNothing(file, outcome) == file

\* the file after clear()
AfterClear(file, outcome) == writeCache(file, EmptyCache, outcome)

----------------------------------------------------------------------------
(* SpecCache: calls of get, set and clear on the cache file as time        *)
(* passes.  The bodies of the three functions contain no await, so each    *)
(* call runs to its end before the next one starts.                        *)

\* latest value of Date.now() in SpecCache
MaxNow == 2
\* most failed writes of the cache file in SpecCache
MaxWriteFaults == 1

CacheKeys == {"test-key", "expired-key"}
CacheValues == {[foo |-> "bar"], [foo |-> "baz"]}
\* the ttlMs arguments: none, 1 ms, Infinity
TtlArguments == {Null, Ms(1), Ms(Infinity)}

NoSet == [none |-> TRUE]

InitCache ==
    /\ cacheFile \in {Unreadable, [readable |-> TRUE, entries |-> EmptyCache]}
    /\ now = 0
    /\ lastCall = [op |-> "none"]
    /\ history = [k \in CacheKeys |->
                    [set |-> NoSet, sound |-> TRUE, cleared |-> "no"]]
    /\ everSet = {}
    /\ writeFaults = 0
    /\ IdleScorer
    /\ IdleProject
    /\ IdleRun
    /\ IdleMaintenance
    /\ IdleTrend
    /\ IdleFetch
    /\ IdleReport

\* a write of the cache file ends in one of WriteOutcomes
Written(outcome) ==
    /\ outcome \in WriteOutcomes
    /\ outcome # "ok" => writeFaults < MaxWriteFaults
    /\ writeFaults' = IF outcome = "ok" THEN writeFaults ELSE writeFaults + 1

\* await cache.set(key, value, ttlMs)
Set(key, value, ttlMs, outcome) ==
    /\ Written(outcome)
    /\ cacheFile' = AfterSet(cacheFile, key, value, ttlMs, now, outcome)
    /\ lastCall' = [op |-> "set", key |-> key, at |-> now]
    /\ history' = [k \in CacheKeys |->
                     IF k = key
                     THEN [set |-> [value |-> value, at |-> now,
                                    ttl |-> TtlOf(ttlMs)],
                           sound |-> outcome = "ok",
                           cleared |-> "no"]
                     ELSE [history[k] EXCEPT
                             !.sound = @ /\ outcome = "ok"]]
    /\ everSet' = everSet \cup {key}
    /\ UNCHANGED now
    /\ UNCHANGED << appVars, maintenanceVars, trendVars, fetchVars, reportVars >>

\* await cache.get(key)
Get(key, outcome) ==
    /\ IF Expired(cacheFile, key, now)
       THEN Written(outcome)
       ELSE outcome = "ok" /\ UNCHANGED writeFaults
    /\ cacheFile' = AfterGet(cacheFile, key, now, outcome)
    /\ lastCall' = [op |-> "get", key |-> key, at |-> now,
                    result |-> get(cacheFile, key, now)]
    /\ history' = [k \in CacheKeys |->
                     [history[k] EXCEPT !.sound = @ /\ outcome = "ok"]]
    /\ UNCHANGED << now, everSet >>
    /\ UNCHANGED << appVars, maintenanceVars, trendVars, fetchVars, reportVars >>

\* cache.clear()
Clear(outcome) ==
    /\ Written(outcome)
    /\ cacheFile' = AfterClear(cacheFile, outcome)
    /\ lastCall' = [op |-> "clear"]
    /\ history' = [k \in CacheKeys |->
                     [set |-> NoSet, sound |-> TRUE,
                      cleared |-> IF outcome = "ok" THEN "ok" ELSE "failed"]]
    /\ UNCHANGED << now, everSet >>
    /\ UNCHANGED << appVars, maintenanceVars, trendVars, fetchVars, reportVars >>

\* a millisecond passes
Tick ==
    /\ now < MaxNow
    /\ now' = now + 1
    /\ UNCHANGED << cacheFile, lastCall, history, everSet, writeFaults >>
    /\ UNCHANGED << appVars, maintenanceVars, trendVars, fetchVars, reportVars >>

NextCache ==
    \/ \E key \in CacheKeys, value \in CacheValues, ttlMs \in TtlArguments,
          outcome \in WriteOutcomes : Set(key, value, ttlMs, outcome)
    \/ \E key \in CacheKeys, outcome \in WriteOutcomes : Get(key, outcome)
    \/ \E outcome \in WriteOutcomes : Clear(outcome)
    \/ Tick

SpecCache == InitCache /\ [][NextCache]_vars

\* the latest call was get(key) and key's latest set has not been followed
\* by a clear
GotAfterSet ==
    /\ lastCall.op = "get"
    /\ history[lastCall.key].set # NoSet

\* what get is to return for the latest set of its key: the value up to
\* and including the millisecond `set time + ttl`, null afterwards
Expected(h, at) ==
    IF h.set.ttl = Infinity \/ at <= h.set.at + h.set.ttl
    THEN h.set.value ELSE Null

----------------------------------------------------------------------------
(* SpecFetch: one call of cachedFetch(url, cacheKey).                      *)

\* const TIMEOUT_MS = 10000
TIMEOUT_MS == 10000

\* how many half timeouts the clock of SpecFetch runs
MaxWaits == 4

\* the three acquisitions of each package: the cache key and the JSON the
\* server holds for the url, Null where it answers 404
FetchRequests ==
    UNION {{[cacheKey |-> PkgKey(n), data |-> RegistryInfo(n)],
            [cacheKey |-> WeekKey(n), data |-> RegistryWeekly(n)],
            [cacheKey |-> TrendKey(n), data |-> RegistryRange(n)]} :
           n \in PackageNames}

Pending == [pending |-> TRUE]

\* the cache file an earlier run left, holding the response of a request
Cached(request) ==
    [readable |-> TRUE,
     entries |-> (request.cacheKey :>
                    [value |-> request.data, expiresAt |-> DEFAULT_TTL])]

\* the cache file a run of more than an hour ago left: the entry of the
\* request has expired, the entry of another package is younger
Outdated(request) ==
    [readable |-> TRUE,
     entries |-> (request.cacheKey :>
                    [value |-> [downloads |-> 1], expiresAt |-> -1])
                 @@ ("pkg:lodash" :>
                    [value |-> [latest |-> "4.17.21"],
                     expiresAt |-> DEFAULT_TTL])]

\* variant: the body of every response is read and stored
ResponseOkAlways(status) == TRUE

\* `res.status === 404` and `!res.ok` both false: the body is read
ResponseOk(status) == status \in 200..299

\* the steps of the call so far, oldest first
Did(op) == \E k \in DOMAIN history : history[k].op = op

InitFetch ==
    /\ fetchRequest \in FetchRequests
    /\ fetchPc = "start"
    /\ timer = "unset"
    /\ fetchStart = 0
    /\ fetchReturn = Pending
    /\ calls = << >>
    /\ cacheFile \in {Unreadable, Outdated(fetchRequest)}
                       \cup (IF fetchRequest.data = Null THEN {}
                             ELSE {Cached(fetchRequest)})
    /\ now = 0
    /\ lastCall = << >>
    /\ history = << >>
    /\ everSet = {}
    /\ writeFaults = 0
    /\ IdleScorer
    /\ IdleProject
    /\ IdleRun
    /\ IdleMaintenance
    /\ IdleTrend
    /\ IdleReport

\* `const cached = await cache.get(cacheKey); if (cached !== null) return
\* cached;` and, on a miss, the start of fetchWithTimeout: the timer is set
\* and fetch is called
CacheLookup(outcome) ==
    /\ fetchPc = "start"
    /\ outcome \in WriteOutcomes
    /\ Expired(cacheFile, fetchRequest.cacheKey, now) \/ outcome = "ok"
    /\ LET cached == get(cacheFile, fetchRequest.cacheKey, now)
           after  == AfterGet(cacheFile, fetchRequest.cacheKey, now, outcome)
       IN  IF cached # Null
           THEN /\ fetchReturn' = cached
                /\ fetchPc' = "returned"
                /\ history' = << [op |-> "get", before |-> cacheFile,
                                  after |-> after, result |-> cached] >>
                /\ UNCHANGED << timer, fetchStart >>
           ELSE /\ fetchPc' = "fetching"
                /\ timer' = "armed"
                /\ fetchStart' = now
                /\ history' = << [op |-> "get", before |-> cacheFile,
                                  after |-> after, result |-> cached],
                                 [op |-> "fetch"] >>
                /\ UNCHANGED fetchReturn
    /\ cacheFile' = AfterGet(cacheFile, fetchRequest.cacheKey, now, outcome)
    /\ UNCHANGED << calls, fetchRequest, now, lastCall, everSet, writeFaults >>
    /\ UNCHANGED << appVars, maintenanceVars, trendVars, reportVars >>

\* fetch resolves with the response once its head has arrived; `finally`
\* clears the timer; a 404 and any other status that is not ok return null
HeadersArrive(status) ==
    /\ fetchPc = "fetching"
    /\ timer = "armed"
    /\ status \in (IF fetchRequest.data = Null THEN {404} ELSE {200, 500})
    /\ timer' = "cleared"
    /\ IF ResponseOk(status)
       THEN /\ fetchPc' = "reading"
            /\ UNCHANGED fetchReturn
       ELSE /\ fetchPc' = "returned"
            /\ fetchReturn' = Null
    /\ history' = Append(history, [op |-> "status", status |-> status])
    /\ UNCHANGED << calls, fetchRequest, fetchStart >>
    /\ UNCHANGED << cacheFile, now, lastCall, everSet, writeFaults >>
    /\ UNCHANGED << appVars, maintenanceVars, trendVars, reportVars >>

\* fetch rejects (no connection, reset): `finally`, then `catch`
NetworkError ==
    /\ fetchPc = "fetching"
    /\ timer = "armed"
    /\ timer' = "cleared"
    /\ fetchPc' = "returned"
    /\ fetchReturn' = Null
    /\ history' = Append(history, [op |-> "error"])
    /\ UNCHANGED << calls, fetchRequest, fetchStart >>
    /\ UNCHANGED << cacheFile, now, lastCall, everSet, writeFaults >>
    /\ UNCHANGED << appVars, maintenanceVars, trendVars, reportVars >>

\* the timer set by fetchWithTimeout runs out: controller.abort() makes
\* the pending fetch reject, which `catch` turns into null
TimerFires ==
    /\ timer = "armed"
    /\ now >= fetchStart + TIMEOUT_MS
    /\ timer' = "fired"
    /\ fetchPc' = "returned"
    /\ fetchReturn' = Null
    /\ history' = Append(history, [op |-> "timeout"])
    /\ UNCHANGED << calls, fetchRequest, fetchStart >>
    /\ UNCHANGED << cacheFile, now, lastCall, everSet, writeFaults >>
    /\ UNCHANGED << appVars, maintenanceVars, trendVars, reportVars >>

\* `const data = await res.json(); await cache.set(cacheKey, data,
\* CACHE_TTL); return data;` once the body has arrived whole
BodyArrives(outcome) ==
    /\ fetchPc = "reading"
    /\ outcome \in WriteOutcomes
    /\ cacheFile' = AfterSet(cacheFile, fetchRequest.cacheKey,
                             fetchRequest.data, Ms(DEFAULT_TTL), now, outcome)
    /\ fetchPc' = "returned"
    /\ fetchReturn' = fetchRequest.data
    /\ history' = history \o << [op |-> "json"],
                                [op |-> "set", outcome |-> outcome] >>
    /\ UNCHANGED << calls, fetchRequest, timer, fetchStart >>
    /\ UNCHANGED << now, lastCall, everSet, writeFaults >>
    /\ UNCHANGED << appVars, maintenanceVars, trendVars, reportVars >>

\* res.json() rejects (the connection breaks, the body is no JSON)
BodyFails ==
    /\ fetchPc = "reading"
    /\ fetchPc' = "returned"
    /\ fetchReturn' = Null
    /\ history' = Append(history, [op |-> "badbody"])
    /\ UNCHANGED << calls, fetchRequest, timer, fetchStart >>
    /\ UNCHANGED << cacheFile, now, lastCall, everSet, writeFaults >>
    /\ UNCHANGED << appVars, maintenanceVars, trendVars, reportVars >>

\* half a timeout passes while nothing arrives; an armed timer fires when
\* it is due, so time does not pass beyond that moment with the timer armed
Wait ==
    /\ fetchPc # "returned"
    /\ now < MaxWaits * (TIMEOUT_MS \div 2)
    /\ ~(timer = "armed" /\ now >= fetchStart + TIMEOUT_MS)
    /\ now' = now + TIMEOUT_MS \div 2
    /\ UNCHANGED << fetchVars, cacheFile, lastCall, history, everSet, writeFaults >>
    /\ UNCHANGED << appVars, maintenanceVars, trendVars, reportVars >>

NextFetch ==
    \/ \E outcome \in WriteOutcomes : CacheLookup(outcome)
    \/ \E status \in {200, 404, 500} : HeadersArrive(status)
    \/ NetworkError
    \/ TimerFires
    \/ \E outcome \in WriteOutcomes : BodyArrives(outcome)
    \/ BodyFails
    \/ Wait

SpecFetch == InitFetch /\ [][NextFetch]_vars

\* C15: every network acquisition is bounded by the timeout: an
\* acquisition whose complete response has not arrived when TIMEOUT_MS
\* have passed since the request ends then, with null, as a network
\* failure does; no acquisition is still pending after that.
C15_BoundedByTimeout ==
    /\ fetchPc \in {"fetching", "reading"} => now <= fetchStart + TIMEOUT_MS
    /\ (fetchPc = "returned" /\ timer = "fired") => fetchReturn = Null

----------------------------------------------------------------------------
(* One failing extractor.                                                  *)

\* the analyzers of a finished call that rejected
FailedAnalyzers(t) == {k \in 1..4 : t.results[k].status = "rejected"}

\* exactly one of the four analyzers of a finished call rejected
ExactlyOneFailed(t) ==
    /\ t.pc = "settled"
    /\ t.joined
    /\ Cardinality(FailedAnalyzers(t)) = 1

\* the four signals of a result, in the order of the analyzers
SignalsIn(r) == << r.maintenance, r.popularity, r.size, r.security >>

\* the defaults as the claim words them
StatedDefaults ==
    << [lastPublish |-> "unknown", daysSincePublish |-> Infinity,
        status |-> "abandoned"],
       [weeklyDownloads |-> 0, trend |-> "stable", trendPercent |-> 0],
       [unpackedSize |-> 0, unpackedSizeHuman |-> "unknown"],
       [vulnerabilities |-> 0, severity |-> "none"] >>

\* C16: when exactly one of the four analyzers rejects (the metadata was
\* found), the other three signals of the result are what their analyzers
\* returned, the failed dimension holds its fixed default (maintenance
\* abandoned / infinite, popularity 0 / stable / 0, size unknown, security
\* none), the result has no error marker, and its score is calculated from
\* those four signals, not forced to 0.
C16_OneFailureIsolated ==
    \A bi \in Tasks :
        ExactlyOneFailed(TaskOf(bi)) =>
            LET t == TaskOf(bi)
            IN  /\ t.settled.status = "fulfilled"
                /\ \A k \in 1..4 :
                     SignalsIn(t.settled.value)[k]
                       = IF t.results[k].status = "fulfilled"
                         THEN t.results[k].value
                         ELSE StatedDefaults[k]
                /\ ~HasError(t.settled.value)
                /\ t.settled.value.score
                     = calculateScore(
                         [maintenance |-> t.settled.value.maintenance,
                          popularity  |-> t.settled.value.popularity,
                          size        |-> t.settled.value.size,
                          security    |-> t.settled.value.security])
                /\ t.settled.value.grade
                     = calculateGrade(t.settled.value.score)

\* C16 witness: of the analyzers of express only the maintenance analyzer
\* rejected; the result is abandoned, keeps the 2,000,000 downloads and
\* scores 70.
C16_Witness ==
    \E bi \in Tasks :
        /\ ExactlyOneFailed(TaskOf(bi))
        /\ FailedAnalyzers(TaskOf(bi)) = {1}
        /\ EntryAt(bi).name = "express"
        /\ TaskOf(bi).settled.value.maintenance.status = "abandoned"
        /\ TaskOf(bi).settled.value.popularity.weeklyDownloads = 2000000
        /\ TaskOf(bi).settled.value.score = 70

----------------------------------------------------------------------------
(* --no-cache                                                              *)

\* C17: with --no-cache (useCache = false) every acquisition of the run is
\* served by a fresh network call: no value a fetch of the run returns
\* comes from a cache entry that was written before the run started.
C17_NoCacheServesNothingOld ==
    NoCache => \A bi \in Tasks : TaskOf(bi).stale = {}

----------------------------------------------------------------------------
(* SpecReport: one call of a reporter's render(results, options).          *)

\* largest --limit of the model
MaxLimit == 2

\* the results handed to the reporter: up to two production and up to two
\* dev dependencies, each with one of four scores and its grade
ReportScores == {10, 40, 60, 90}
ReportResults(names) ==
    UNION {{[i \in 1..k |-> [name |-> names[i], score |-> sc[i],
                             grade |-> calculateGrade(sc[i])]] :
               sc \in [1..k -> ReportScores]} :
           k \in 0..Len(names)}

\* `let sorted = deps.slice().sort((a, b) => a.score - b.score)`: the sort
\* is stable
RECURSIVE InsertByScore(_, _)
InsertByScore(x, sorted) ==
    IF sorted = << >> THEN << x >>
    ELSE IF x.score < Head(sorted).score THEN << x >> \o sorted
    ELSE << Head(sorted) >> \o InsertByScore(x, Tail(sorted))

RECURSIVE SortByScore(_)
SortByScore(deps) ==
    IF deps = << >> THEN << >>
    ELSE InsertByScore(deps[Len(deps)],
                       SortByScore(SubSeq(deps, 1, Len(deps) - 1)))

\* `if (options.limit && options.limit > 0) sorted = sorted.slice(0,
\* options.limit)`
Limited(sorted, limit) ==
    IF limit > 0 THEN SubSeq(sorted, 1, Min(limit, Len(sorted))) ELSE sorted

\* reporters/json.js buildOutput: output.dependencies
buildOutput(deps, devDeps, opts) ==
    LET allDeps == IF opts.dev /\ Len(devDeps) > 0
                   THEN deps \o devDeps ELSE deps
    IN  Limited(SortByScore(allDeps), opts.limit)

\* reporters/terminal.js renderDeps: the entries it writes
renderDeps(deps, opts) == Limited(SortByScore(deps), opts.limit)

\* reporters/terminal.js renderQuiet: the entries under "Issues"
renderQuiet(deps, devDeps, opts) ==
    LET all == IF opts.dev THEN deps \o devDeps ELSE deps
        bad == SelectSeq(all, LAMBDA d : d.grade \in {"D", "F"})
    IN  Limited(SortByScore(bad), opts.limit)

\* reporters/terminal.js render: the entries it writes, section by section
render(deps, devDeps, opts) ==
    IF opts.quiet THEN renderQuiet(deps, devDeps, opts)
    ELSE renderDeps(deps, opts)
           \o (IF opts.dev /\ Len(devDeps) > 0
               THEN renderDeps(devDeps, opts) ELSE << >>)

InitReport ==
    /\ dependencies \in ReportResults(<< "express", "moment" >>)
    /\ devDependencies \in ReportResults(<< "mocha", "eslint" >>)
    /\ projectScore = 0
    /\ projectGrade = "F"
    /\ projectPc = "returned"
    /\ reportOptions \in [json : BOOLEAN, dev : BOOLEAN, quiet : BOOLEAN,
                          limit : 0..MaxLimit]
    /\ shown = << >>
    /\ reportPc = "input"
    /\ IdleScorer
    /\ IdleRun
    /\ IdleMaintenance
    /\ IdleTrend
    /\ IdleCache
    /\ IdleFetch

\* `const reporter = options.json ? jsonReporter : terminalReporter;
\* reporter.render(results, {...})`
Render ==
    /\ reportPc = "input"
    /\ shown' = IF reportOptions.json
                THEN buildOutput(dependencies, devDependencies, reportOptions)
                ELSE render(dependencies, devDependencies, reportOptions)
    /\ reportPc' = "rendered"
    /\ UNCHANGED reportOptions
    /\ UNCHANGED << appVars, maintenanceVars, trendVars, cacheVars, fetchVars >>

NextReport == Render

SpecReport == InitReport /\ [][NextReport]_vars

\* the dependencies in the scope of the report
InScope ==
    IF reportOptions.dev THEN dependencies \o devDependencies
    ELSE dependencies

ShownNames == {shown[i].name : i \in DOMAIN shown}

\* C18: with --limit n (n > 0) a report shows only the n worst-scoring
\* dependencies among those in scope: at most n entries appear, and no
\* omitted dependency has a lower score than a shown one; for the JSON
\* report and the terminal report alike, with and without --dev.
C18_LimitShowsWorst ==
    (reportPc = "rendered" /\ reportOptions.limit > 0) =>
        /\ Len(shown) <= reportOptions.limit
        /\ \A i \in DOMAIN InScope, j \in DOMAIN shown :
             InScope[i].name \notin ShownNames =>
                 InScope[i].score >= shown[j].score

----------------------------------------------------------------------------
(* Fan-out and fan-in.                                                     *)

\* the result of a call was built from its four analyzers
Scored(t) ==
    /\ t.settled # Null
    /\ t.settled.status = "fulfilled"
    /\ ~HasError(t.settled.value)

\* C21: the project score and grade are computed only after every
\* per-dependency analysis, production and dev, has settled, and the score
\* of one dependency only after its four analyzers have settled; no result
\* enters the aggregate while its analysis is pending.
C21_JoinedBeforeScoring ==
    /\ \A bi \in Tasks :
         Scored(TaskOf(bi)) =>
            \A k \in 1..4 : TaskOf(bi).results[k].status # "pending"
    /\ (dependencies # << >> \/ projectPc \in {"awaitDev", "returned"}) =>
         /\ Len(analysis.prod) = Len(pkg.dependencies)
         /\ AllSettled(analysis.prod)
         /\ dependencies = CollectResults(analysis.prod, BatchEntries("prod"))
    /\ projectPc = "returned" =>
         /\ Len(analysis.dev) = Len(BatchEntries("dev"))
         /\ AllSettled(analysis.dev)
         /\ devDependencies = CollectResults(analysis.dev, BatchEntries("dev"))
         /\ projectScore = calculateProjectScore(dependencies, devDependencies)
         /\ projectGrade = calculateGrade(projectScore)

\* C21 witness: a production and a dev dependency were both scored from
\* their four settled analyzers and the project score was computed.
C21_Witness ==
    /\ projectPc = "returned"
    /\ Len(analysis.prod) = 1
    /\ Len(analysis.dev) = 1
    /\ Scored(analysis.prod[1])
    /\ Scored(analysis.dev[1])
    /\ analysis.prod[1].results[2].status = "fulfilled"
    /\ projectScore > 0

\* an analysis of the production batch has not settled yet
ProdPending == \E i \in DOMAIN analysis.prod : analysis.prod[i].settled = Null

\* C22: all per-dependency analyses of a run, production and dev alike, are
\* dispatched together: while the analysis of a production dependency is
\* still pending, the analysis of every dev dependency in scope has been
\* started, none waiting for another dependency to finish.
C22_AllDispatchedTogether ==
    ProdPending =>
        \A i \in DOMAIN BatchEntries("dev") : i \in DOMAIN analysis.dev

\* the call has returned after a failed acquisition: a 404, another status
\* that is not ok, a network error or a timeout
AcquisitionFailed ==
    /\ fetchPc = "returned"
    /\ history # << >>
    /\ LET last == history[Len(history)]
       IN  \/ last.op \in {"error", "timeout"}
           \/ last.op = "status" /\ ~ResponseOk(last.status)

\* what the claim says of the order of cache and network, of a live entry
\* and of a failed write
ReadBeforeWriteAfter ==
    /\ \A k \in DOMAIN history :
         /\ history[k].op = "fetch" => \E j \in 1..(k - 1) : history[j].op = "get"
         /\ history[k].op = "set" =>
              /\ k >= 3
              /\ history[k - 1].op = "json"
              /\ history[k - 2] = [op |-> "status", status |-> 200]
    /\ (history # << >> /\ history[1].result # Null) =>
         /\ fetchReturn = history[1].result
         /\ history[1].result
              = readCache(history[1].before)[fetchRequest.cacheKey].value
         /\ ~Did("fetch")
    /\ Did("set") =>
         /\ fetchPc = "returned"
         /\ fetchReturn = fetchRequest.data

\* C23 as stated: cachedFetch consults the cache before any network call
\* and returns a live entry without a network request; it writes the cache
\* only after a successful fetch; on a 404, a non-ok status, a network
\* error or a timeout it returns null and leaves the cache unchanged; a
\* failed write of the cache is not surfaced.
C23_CacheUntouchedAsStated ==
    /\ ReadBeforeWriteAfter
    /\ AcquisitionFailed =>
         /\ fetchReturn = Null
         /\ cacheFile = history[1].before

\* C23 amended: as stated, except that after a 404, a non-ok status, a
\* network error or a timeout cachedFetch returns null without having
\* called cache.set, so that the cache is as the lookup left it: the
\* lookup deletes an expired entry of the key and rewrites the file.
C23_ReadBeforeWriteAfter ==
    /\ ReadBeforeWriteAfter
    /\ AcquisitionFailed =>
         /\ fetchReturn = Null
         /\ ~Did("set")
         /\ cacheFile = history[1].after
         /\ ~Expired(history[1].before, fetchRequest.cacheKey, fetchStart)
              => cacheFile = history[1].before

\* C23 witness: the lookup found an expired entry and deleted it, the
\* server answered 500, and the call returned null with the younger entry
\* of the other package still in the cache.
C23_Witness ==
    /\ AcquisitionFailed
    /\ history[Len(history)] = [op |-> "status", status |-> 500]
    /\ history[1].before = Outdated(fetchRequest)
    /\ fetchReturn = Null
    /\ DOMAIN readCache(cacheFile) = {"pkg:lodash"}

----------------------------------------------------------------------------
(* The floor of the score.                                                 *)

\* the results analyzeProject has collected
Collected == dependencies \o devDependencies

----------------------------------------------------------------------------
(* Score and grade of the returned results.                                *)

\* C25: for every result analyzeProject returns, grade equals
\* calculateGrade(score), and unless the result carries an error marker
\* its score equals calculateScore of the four signals stored in it;
\* projectGrade equals calculateGrade(projectScore).
C25_GradeOfScore ==
    projectPc = "returned" =>
        /\ \A k \in DOMAIN Collected :
             /\ Collected[k].grade = calculateGrade(Collected[k].score)
             /\ ~HasError(Collected[k]) =>
                  /\ ~calculateScoreThrows(Collected[k])
                  /\ Collected[k].score = calculateScore(Collected[k])
        /\ projectGrade = calculateGrade(projectScore)

\* C25 witness: analyzeProject returned a scored production result of
\* grade A and a dev result with an error marker.
C25_Witness ==
    /\ projectPc = "returned"
    /\ Len(dependencies) = 1
    /\ Len(devDependencies) = 1
    /\ ~HasError(dependencies[1])
    /\ dependencies[1].grade = "A"
    /\ HasError(devDependencies[1])
    /\ projectGrade # "F"

----------------------------------------------------------------------------
(* Range of the project score.                                             *)

\* the scores of a sequence of results
ScoresIn(results) == {results[k].score : k \in DOMAIN results}

\* C26: for a non-empty collection of production and dev results with
\* integer scores in 0..100, calculateProjectScore is an integer between
\* the least and the greatest of those scores, hence in 0..100; with no
\* result at all the project has score 0 and grade F.
C26_BetweenMinAndMax ==
    projectPc = "returned" =>
        LET scores == ScoresIn(dependencies) \cup ScoresIn(devDependencies)
        IN  /\ scores = {} => (projectScore = 0 /\ projectGrade = "F")
            /\ scores # {} =>
                 /\ projectScore \in 0..100
                 /\ \E s \in scores : s <= projectScore
                 /\ \E s \in scores : projectScore <= s

\* C26 witness: a production result of 100 and a dev result of 0 were
\* aggregated to 67, strictly between the two.
C26_Witness ==
    /\ projectPc = "returned"
    /\ dependencies = << [score |-> 100] >>
    /\ devDependencies = << [score |-> 0] >>
    /\ projectScore = 67

----------------------------------------------------------------------------
(* Dev dependencies left out.                                              *)

\* the cache keys of the packages that only devDependencies names
DevOnlyKeys ==
    UNION {{PkgKey(n), WeekKey(n), TrendKey(n)} :
              n \in {pkg.devDependencies[k].name : k \in DOMAIN pkg.devDependencies}
                      \ {pkg.dependencies[k].name : k \in DOMAIN pkg.dependencies}}

\* C28: without --dev analyzeProject analyzes no dev dependency: nothing
\* is dispatched or fetched for devDependencies, the returned
\* devDependencies is empty, and projectScore, projectGrade and the exit
\* code are those of the production results alone, as for a manifest with
\* the same dependencies and no devDependencies.
C28_DevLeftOut ==
    ~options.dev =>
        /\ analysis.dev = << >>
        /\ devDependencies = << >>
        /\ DevOnlyKeys \cap cache \subseteq preRun
        /\ (cliPc = "exited" /\ pkg.dependencies = << >>) =>
              (exitCode = 1 /\ projectPc # "returned")
        /\ projectPc = "returned" =>
              /\ projectScore = calculateProjectScore(dependencies, << >>)
              /\ projectGrade = calculateGrade(projectScore)
              /\ cliPc = "exited" =>
                    exitCode = (IF HasF(dependencies) THEN 1 ELSE 0)

\* C28 witness: a run without --dev over a manifest that names express as
\* dependency and moment as dev dependency has exited with 0, the score
\* of express as project score and nothing of moment in the cache.
C28_Witness ==
    /\ ~options.dev
    /\ cliPc = "exited"
    /\ projectPc = "returned"
    /\ Len(pkg.dependencies) = 1
    /\ pkg.dependencies[1].name = "express"
    /\ Len(pkg.devDependencies) = 1
    /\ pkg.devDependencies[1].name = "moment"
    /\ devDependencies = << >>
    /\ projectScore = dependencies[1].score
    /\ exitCode = 0
    /\ DevOnlyKeys \cap cache = {}

----------------------------------------------------------------------------
(* SpecShared: the cachedFetch calls that the analyses of a run have in    *)
(* flight at the same time, over the one cache file.  The calls of a run   *)
(* that overlap have different keys.  A call awaits cache.get, then fetch, *)
(* then res.json(); what it does between two awaits runs in one piece:     *)
(* get and set are async functions without await that read and write the   *)
(* file synchronously.                                                     *)

\* most calls in flight at the same time in SpecShared
MaxCalls == 2

\* the request with the given cache key
RequestOf(key) == CHOOSE r \in FetchRequests : r.cacheKey = key

SharedKeys == {r.cacheKey : r \in FetchRequests}

InitShared ==
    /\ \E K \in SUBSET SharedKeys :
         /\ Cardinality(K) <= MaxCalls
         /\ calls = [k \in K |-> [data |-> RequestOf(k).data, pc |-> "start",
                                  ret |-> Pending, overlapped |-> FALSE]]
    /\ cacheFile \in {Unreadable}
                       \cup {Outdated(RequestOf(k)) : k \in DOMAIN calls}
                       \cup {Cached(RequestOf(k)) :
                               k \in {j \in DOMAIN calls : calls[j].data # Null}}
    /\ now = 0
    /\ lastCall = << >>
    /\ history = << >>
    /\ everSet = {}
    /\ writeFaults = 0
    /\ fetchRequest = << >>
    /\ fetchPc = "idle"
    /\ timer = "unset"
    /\ fetchStart = 0
    /\ fetchReturn = << >>
    /\ IdleScorer
    /\ IdleProject
    /\ IdleRun
    /\ IdleMaintenance
    /\ IdleTrend
    /\ IdleReport

\* the variables SpecShared leaves alone
SharedFrame ==
    /\ UNCHANGED << now, lastCall, history, everSet >>
    /\ UNCHANGED << fetchRequest, fetchPc, timer, fetchStart, fetchReturn >>
    /\ UNCHANGED << appVars, maintenanceVars, trendVars, reportVars >>

\* a call starts: `const cached = await cache.get(cacheKey); if (cached !==
\* null) return cached;`, and on a miss fetch is called
Lookup(k, outcome) ==
    /\ k \in DOMAIN calls
    /\ calls[k].pc = "start"
    /\ IF Expired(cacheFile, k, now)
       THEN Written(outcome)
       ELSE outcome = "ok" /\ UNCHANGED writeFaults
    /\ LET cached == get(cacheFile, k, now)
       IN  calls' = [calls EXCEPT ![k] =
                       IF cached # Null
                       THEN [@ EXCEPT !.pc = "returned", !.ret = cached]
                       ELSE [@ EXCEPT !.pc = "fetching"]]
    /\ cacheFile' = AfterGet(cacheFile, k, now, outcome)
    /\ SharedFrame

\* the head of the response arrives: a 404 and any other status that is
\* not ok return null
Responds(k, status) ==
    /\ k \in DOMAIN calls
    /\ calls[k].pc = "fetching"
    /\ status \in (IF calls[k].data = Null THEN {404} ELSE {200, 500})
    /\ calls' = [calls EXCEPT ![k] =
                    IF ResponseOk(status)
                    THEN [@ EXCEPT !.pc = "reading"]
                    ELSE [@ EXCEPT !.pc = "returned", !.ret = Null]]
    /\ UNCHANGED << cacheFile, writeFaults >>
    /\ SharedFrame

\* fetch or res.json() rejects, or the timeout aborts the fetch: `catch`
\* returns null
Fails(k) ==
    /\ k \in DOMAIN calls
    /\ calls[k].pc \in {"fetching", "reading"}
    /\ calls' = [calls EXCEPT ![k] = [@ EXCEPT !.pc = "returned", !.ret = Null]]
    /\ UNCHANGED << cacheFile, writeFaults >>
    /\ SharedFrame

\* the body has arrived: `await cache.set(cacheKey, data, CACHE_TTL);
\* return data;`.  `overlapped` notes that another call was between its
\* lookup and its own set at that moment.
Stores(k, outcome) ==
    /\ k \in DOMAIN calls
    /\ calls[k].pc = "reading"
    /\ Written(outcome)
    /\ cacheFile' = AfterSet(cacheFile, k, calls[k].data, Ms(DEFAULT_TTL),
                             now, outcome)
    /\ calls' = [calls EXCEPT ![k] =
                    [@ EXCEPT !.pc = "returned", !.ret = calls[k].data,
                              !.overlapped =
                                 \E j \in DOMAIN calls \ {k} :
                                    calls[j].pc \in {"fetching", "reading"}]]
    /\ SharedFrame

NextShared ==
    \/ \E k \in SharedKeys, outcome \in WriteOutcomes : Lookup(k, outcome)
    \/ \E k \in SharedKeys, status \in {200, 404, 500} : Responds(k, status)
    \/ \E k \in SharedKeys : Fails(k)
    \/ \E k \in SharedKeys, outcome \in WriteOutcomes : Stores(k, outcome)

SpecShared == InitShared /\ [][NextShared]_vars

\* C27: with the cache enabled, no interleaving of the get and set calls
\* of concurrent analyses loses an entry another analysis wrote: while no
\* write of the cache file has failed (and no TTL has run out), the cache
\* holds a live entry for the key of every call that has returned data, so
\* once all have completed every fetched key has one.
C27_NoEntryLost ==
    writeFaults = 0 =>
        \A k \in DOMAIN calls :
            (calls[k].pc = "returned" /\ calls[k].ret # Null) =>
                get(cacheFile, k, now) = calls[k].ret

\* C27 witness: MaxCalls calls have all completed and returned their
\* data, one of them having stored its response while another call was
\* between its own lookup and set, and each key has a live entry.
C27_Witness ==
    /\ writeFaults = 0
    /\ Cardinality(DOMAIN calls) = MaxCalls
    /\ \A k \in DOMAIN calls :
         /\ calls[k].pc = "returned"
         /\ calls[k].ret = RequestOf(k).data
         /\ calls[k].ret # Null
    /\ \E k \in DOMAIN calls : calls[k].overlapped
    /\ \A k \in DOMAIN calls : get(cacheFile, k, now) # Null

====
